---------------------------- MODULE Spec2Model ----------------------------
(***************************************************************************)
(* Model of the ABCI query dispatcher and proof engine of chain-abci       *)
(* (src/chain/chain-abci/src/app/query.rs) over the column-partitioned     *)
(* key/value store, the node's last committed state and the account trie.  *)
(*                                                                         *)
(* Byte strings are records [len, tag, val]: len is the length in bytes,   *)
(* tag names the kind of content and val carries the content.  Hashes are  *)
(* injective tags over the preimage.  Strings that the code inspects       *)
(* character by character (the query path) are sequences of characters.    *)
(***************************************************************************)
EXTENDS Integers, Sequences, FiniteSets, TLC

VARIABLES
    storage,          \* Storage.db: column -> (key -> value)
    accounts,         \* account trie storage: root hash -> (address -> StakedState)
    last_state,       \* ChainNodeApp.last_state: None or Some(ChainNodeState)
    mock_enc_dec,     \* cargo feature "mock-enc-dec" of the build
    req,              \* the RequestQuery of the last query
    resp,             \* the ResponseQuery of the last query (or its abort)
    op,               \* the last operation performed
    qpc,              \* position of a store/prove query that is read step by step
    qreads,           \* what that query has read so far, with the commit it read it at
    commits,          \* number of committed write batches (InitChain and Commit)
    builder,          \* DefaultWalletClientBuilder: its components and its *_set flags
    client,           \* the DefaultWalletClient that build() returned, or None
    key_store,        \* KeyService keyspace of the wallet storage: public key -> enc(private key)
    wallet_store,     \* WalletService keyspace: wallet name -> wallet record
    root_hash_store,  \* RootHashService keyspace: root hash -> multi-sig address
    session_store,    \* MultiSigSessionService keyspace: session id -> session
    index,            \* the Index collaborator: the unspent outputs it reports
    wcall,            \* the last call made on the builder or the client
    wres,             \* the Result that call returned
    wpc               \* "idle", or "returned" while the caller holds the Result

vars == <<storage, accounts, last_state, mock_enc_dec, req, resp, op, qpc, qreads, commits,
          builder, client, key_store, wallet_store, root_hash_store, session_store, index,
          wcall, wres, wpc>>

nodeVars == <<storage, accounts, last_state>>

storeVars == <<key_store, wallet_store, root_hash_store, session_store>>

walletVars == <<builder, client, key_store, wallet_store, root_hash_store, session_store,
                index, wcall, wres, wpc>>

-----------------------------------------------------------------------------
(* Bounds of the model *)

MaxHeight == 2        \* highest block height that is committed
NumTx == 1            \* transactions that blocks may contain
MaxNonce == 1         \* highest nonce a staked state reaches
NumAddr == 2          \* staking addresses that may hold an account
MaxKeys == 2          \* key pairs that the key service generates
NumSigners == 3       \* public keys of co-signers, generated outside the wallet
MaxIndexed == 2       \* transactions that the index learns of

-----------------------------------------------------------------------------
(* Byte strings, options *)

Bytes(len, tag, val) == [len |-> len, tag |-> tag, val |-> val]

EmptyBytes == Bytes(0, "", <<>>)

None == <<>>

Some(x) == <<x>>

HASH_SIZE_256 == 32

REDEEM_ADDRESS_BYTES == 20

TxId(n) == Bytes(HASH_SIZE_256, "txid", <<n>>)

(* The code never inspects the length of a stored blob; the model gives each
   blob the length of its content sequence. *)
Blob(tag, val) == Bytes(Len(val), tag, val)

TxBody(n) == Blob("TxWithOutputs", <<n>>)

TxWitness(n) == Blob("TxWitness", <<n>>)

TxMeta(n) == Blob("spent-bitmap", <<n>>)

Address(n) == Bytes(REDEEM_ADDRESS_BYTES, "RedeemAddress", <<n>>)

TXID_HASH_ID == Bytes(HASH_SIZE_256, "TXID_HASH_ID", <<>>)

txid_hash(bytes) == Bytes(HASH_SIZE_256, "txid_hash", bytes.val)

(* i64::encode_var_vec: zigzag, then base-128 groups *)
zigzag(n) == IF n >= 0 THEN 2 * n ELSE -2 * n - 1

RECURSIVE varint_len(_)
varint_len(u) == IF u < 128 THEN 1 ELSE 1 + varint_len(u \div 128)

encode_var_vec(height) == Bytes(varint_len(zigzag(height)), "varint", <<zigzag(height)>>)

-----------------------------------------------------------------------------
(* Paths: sequences of characters *)

P_store == <<"s", "t", "o", "r", "e">>
P_meta == <<"m", "e", "t", "a">>
P_witness == <<"w", "i", "t", "n", "e", "s", "s">>
P_merkle == <<"m", "e", "r", "k", "l", "e">>
P_account == <<"a", "c", "c", "o", "u", "n", "t">>
P_mockencrypt == <<"m", "o", "c", "k", "e", "n", "c", "r", "y", "p", "t">>
P_mockdecrypt == <<"m", "o", "c", "k", "d", "e", "c", "r", "y", "p", "t">>
P_slash_p2p == <<"/", "p", "2", "p">>
P_p2p == <<"p", "2", "p">>
P_filter_addr == <<"/", "p", "2", "p", "/", "f", "i", "l", "t", "e", "r", "/", "a", "d", "d", "r", "/", "1">>
P_filter_id == <<"p", "2", "p", "/", "f", "i", "l", "t", "e", "r", "/", "i", "d", "/", "a">>
P_stores == <<"s", "t", "o", "r", "e", "s">>
P_p2 == <<"p", "2">>
P_empty == <<>>

starts_with(s, prefix) ==
    Len(prefix) <= Len(s) /\ SubSeq(s, 1, Len(prefix)) = prefix


-----------------------------------------------------------------------------
(* Key/value store and its columns *)

COL_BODIES == "COL_BODIES"
COL_WITNESS == "COL_WITNESS"
COL_TX_META == "COL_TX_META"
COL_APP_STATES == "COL_APP_STATES"
COL_MERKLE_PROOFS == "COL_MERKLE_PROOFS"

Columns == {COL_BODIES, COL_WITNESS, COL_TX_META, COL_APP_STATES, COL_MERKLE_PROOFS}

(* storage.db.get(column, key): Some(value) or None *)
db_get(column, key) ==
    IF key \in DOMAIN storage[column] THEN Some(storage[column][key]) ELSE None

(* the write batch of one block: every put of the batch lands at once *)
db_write(db, batch) ==
    [c \in Columns |->
        [k \in DOMAIN db[c] \cup DOMAIN batch[c] |->
            IF k \in DOMAIN batch[c] THEN batch[c][k] ELSE db[c][k]]]

NoPuts == [c \in Columns |-> <<>>]

-----------------------------------------------------------------------------
(* Merkle tree of a block's transaction ids *)

(* MerkleTree: the sequence of its leaves *)
MerkleTree_new(leaves) == [leaves |-> leaves]

MerkleTree_encode(tree) == Blob("MerkleTree", tree.leaves)

MerkleTree_decode(data) ==
    IF data.tag = "MerkleTree" THEN Some(MerkleTree_new(data.val)) ELSE None

root_hash(tree) == Bytes(HASH_SIZE_256, "merkle_root", tree.leaves)

(* generate_proof by leaf value: the path of the leaf's position, or None *)
generate_proof(tree, txid) ==
    IF \E i \in 1..Len(tree.leaves) : TxId(tree.leaves[i]) = txid
    THEN LET i == CHOOSE j \in 1..Len(tree.leaves) : TxId(tree.leaves[j]) = txid
         IN Some([leaf |-> txid, position |-> i, width |-> Len(tree.leaves)])
    ELSE None

MerkleProof_encode(proof) ==
    Blob("MerkleProof", <<proof.leaf.val[1], proof.position, proof.width>>)

compute_app_hash(tree, account_root) ==
    Bytes(HASH_SIZE_256, "app_hash", <<Len(tree.leaves)>> \o tree.leaves \o account_root.val)

-----------------------------------------------------------------------------
(* Staked states and the account trie *)

StakedState(n, nonce) == [address |-> Address(n), nonce |-> nonce]

StakedState_encode(a) == Blob("StakedState", <<a.address.val[1], a.nonce>>)

(* The content-addressed root of a set of accounts (nonces: account number ->
   nonce): a digest that lists, per account number, nonce + 1, or 0 for none. *)
account_root_of(nonces) ==
    Bytes(HASH_SIZE_256, "account_root",
          [n \in 1..NumAddr |-> IF n \in DOMAIN nonces THEN nonces[n] + 1 ELSE 0])

account_leaves(nonces) ==
    [a \in {Address(n) : n \in DOMAIN nonces} |-> StakedState(a.val[1], nonces[a.val[1]])]

(* StakedStateAddress::try_from(&[u8]) *)
StakedStateAddress_try_from(data) ==
    IF data.len = REDEEM_ADDRESS_BYTES THEN <<"Ok", data>> ELSE <<"Err", data>>

(* get_account(address, root, accounts) *)
get_account(address, root, trie) ==
    IF root \in DOMAIN trie /\ address \in DOMAIN trie[root]
    THEN <<"Ok", trie[root][address]>>
    ELSE <<"Err", "account not found">>


-----------------------------------------------------------------------------
(* Requests and responses *)

RequestQuery(path, data, height, prove) ==
    [path |-> path, data |-> data, height |-> height, prove |-> prove]

(* ResponseQuery::new(); log is the sequence of the messages appended to it;
   aborted tells that the handler panicked instead of returning *)
ResponseQuery_new ==
    [code |-> 0, value |-> EmptyBytes, log |-> <<>>, proof |-> <<>>, aborted |-> FALSE]

Panic == [ResponseQuery_new EXCEPT !.aborted = TRUE]

ProofOp(field_type, key, data) == [field_type |-> field_type, key |-> key, data |-> data]

get_witness_proof_op(witness) == ProofOp("witness", TXID_HASH_ID, txid_hash(witness))

into_proof_op(root, proof) == ProofOp("transaction", root, MerkleProof_encode(proof))

(* lookup that sets the code of a miss and leaves the log alone *)
lookup_silent(r, column, key, log_message) ==
    LET v == db_get(column, key)
    IN  IF v # None
        THEN [r EXCEPT !.value = v[1]]
        ELSE [r EXCEPT !.code = 1]

(* lookup that reports a miss under the code of a proof error *)
lookup_code_2(r, column, key, log_message) ==
    LET v == db_get(column, key)
    IN  IF v # None
        THEN [r EXCEPT !.value = v[1]]
        ELSE [r EXCEPT !.log = Append(@, log_message), !.code = 2]

lookup(r, column, key, log_message) ==
    LET v == db_get(column, key)
    IN  IF v # None
        THEN [r EXCEPT !.value = v[1]]
        ELSE [r EXCEPT !.log = Append(@, log_message), !.code = 1]


(* self.last_state.as_ref().map_or(0, |x| x.last_block_height) *)
last_height == IF last_state = None THEN 0 ELSE last_state[1].last_block_height

(* proof_height with the request's height ignored *)
proof_height_always_tip(req_height, tip) == tip

(* the height whose app-hash a proof is built against *)
proof_height(req_height, tip) ==
    IF req_height = 0 \/ req_height > tip THEN tip ELSE req_height

(* txid.copy_from_slice(&_req.data[..]) panics unless the lengths agree *)
copy_from_slice_ok(data) == data.len = HASH_SIZE_256

(* proof_ops with the witness op put first *)
proof_ops_witness_first(tree, txid, witness) ==
    LET merkle_proof == generate_proof(tree, txid)
    IN  IF merkle_proof = None
        THEN <<get_witness_proof_op(witness)>>
        ELSE <<get_witness_proof_op(witness), into_proof_op(root_hash(tree), merkle_proof[1])>>

(* the ops of the proof, given the decoded tree and the witness *)
proof_ops(tree, txid, witness) ==
    LET merkle_proof == generate_proof(tree, txid)
    IN  IF merkle_proof = None
        THEN <<get_witness_proof_op(witness)>>
        ELSE <<into_proof_op(root_hash(tree), merkle_proof[1]), get_witness_proof_op(witness)>>

(* the witness arm of the "store" path with prove set *)
store_proof(request, r, witness) ==
    LET height == proof_height(request.height, last_height)
        app_hash == db_get(COL_APP_STATES, encode_var_vec(height))
    IN  IF app_hash = None THEN Panic
        ELSE LET data == db_get(COL_MERKLE_PROOFS, app_hash[1])
             IN  IF data = None THEN Panic
                 ELSE LET tree == MerkleTree_decode(data[1])
                      IN  IF tree = None THEN Panic
                          ELSE IF ~copy_from_slice_ok(request.data) THEN Panic
                          ELSE [r EXCEPT !.proof = proof_ops(tree[1], request.data, witness)]

(* store_query with a missing witness reported as a missing lookup *)
store_query_witness_as_lookup(request, r0) ==
    LET r == lookup(r0, COL_BODIES, request.data, "tx not found")
    IN  IF request.prove /\ r.code = 0
        THEN LET mwitness == db_get(COL_WITNESS, request.data)
             IN  IF mwitness # None
                 THEN store_proof(request, r, mwitness[1])
                 ELSE [r EXCEPT !.log = Append(@, "tx not found"), !.code = 1]
        ELSE r

store_query(request, r0) ==
    LET r == lookup(r0, COL_BODIES, request.data, "tx not found")
    IN  IF request.prove /\ r.code = 0
        THEN LET mwitness == db_get(COL_WITNESS, request.data)
             IN  IF mwitness # None
                 THEN store_proof(request, r, mwitness[1])
                 ELSE [r EXCEPT !.log = Append(@, "proof error: witness not found"),
                                !.code = 2]
        ELSE r

(* account_query that treats an uninitialised node as a failed lookup *)
account_query_uninit_as_lookup(request, r) ==
    LET account_address == StakedStateAddress_try_from(request.data)
    IN  IF account_address[1] = "Ok"
        THEN LET account == IF last_state = None THEN <<"Err", "account not found">>
                            ELSE get_account(account_address[2],
                                             last_state[1].last_account_root_hash, accounts)
             IN  IF account[1] = "Ok"
                 THEN [r EXCEPT !.value = StakedState_encode(account[2])]
                 ELSE [r EXCEPT !.log = Append(@, "account lookup failed: " \o account[2]),
                                !.code = 1]
        ELSE [r EXCEPT
                !.log = Append(@, "account lookup failed (either invalid address or node not correctly restored / initialized)"),
                !.code = 3]

(* account_query that looks the account up under the genesis root *)
account_query_genesis_root(request, r) ==
    LET account_address == StakedStateAddress_try_from(request.data)
    IN  IF last_state # None /\ account_address[1] = "Ok"
        THEN LET account == get_account(account_address[2],
                                        account_root_of([n \in {1} |-> 0]), accounts)
             IN  IF account[1] = "Ok"
                 THEN [r EXCEPT !.value = StakedState_encode(account[2])]
                 ELSE [r EXCEPT !.log = Append(@, "account lookup failed: " \o account[2]),
                                !.code = 1]
        ELSE [r EXCEPT
                !.log = Append(@, "account lookup failed (either invalid address or node not correctly restored / initialized)"),
                !.code = 3]

account_query(request, r) ==
    LET account_address == StakedStateAddress_try_from(request.data)
    IN  IF last_state # None /\ account_address[1] = "Ok"
        THEN LET account == get_account(account_address[2],
                                        last_state[1].last_account_root_hash, accounts)
             IN  IF account[1] = "Ok"
                 THEN [r EXCEPT !.value = StakedState_encode(account[2])]
                 ELSE [r EXCEPT !.log = Append(@, "account lookup failed: " \o account[2]),
                                !.code = 1]
        ELSE [r EXCEPT
                !.log = Append(@, "account lookup failed (either invalid address or node not correctly restored / initialized)"),
                !.code = 3]

(* the transactions a mock decryption request names that are stored and decode *)
decrypt_found(txs) ==
    LET stored(n) == /\ db_get(COL_BODIES, TxId(n)) # None
                     /\ db_get(COL_BODIES, TxId(n))[1].tag = "TxWithOutputs"
    IN  SelectSeq(txs, stored)

handle_enc_dec(request, r) ==
    IF ~mock_enc_dec
    THEN [r EXCEPT
            !.log = Append(@, "received a temporary *mock* encryption/decryption query in abci (use the dedicated enclaves instead)"),
            !.code = 1]
    ELSE IF request.path = P_mockencrypt
    THEN IF request.data.tag = "EncryptionRequest"
         THEN [r EXCEPT !.value = Blob("EncryptionResponse", request.data.val)]
         ELSE [r EXCEPT !.log = Append(@, "invalid request"), !.code = 1]
    ELSE IF request.path = P_mockdecrypt
    THEN IF request.data.tag = "DecryptionRequest"
         THEN [r EXCEPT !.value = Blob("DecryptionResponse", decrypt_found(request.data.val))]
         ELSE [r EXCEPT !.log = Append(@, "invalid request"), !.code = 1]
    ELSE [r EXCEPT !.log = Append(@, "invalid path"), !.code = 1]

(* query_handler without the peer-filter check: every path is dispatched *)
query_handler_dispatch_all(request) ==
    LET r == ResponseQuery_new
    IN  CASE request.path = P_mockencrypt -> handle_enc_dec(request, r)
          [] request.path = P_mockdecrypt -> handle_enc_dec(request, r)
          [] request.path = P_store -> store_query(request, r)
          [] request.path = P_meta ->
               lookup(r, COL_TX_META, request.data, "tx not found")
          [] request.path = P_witness ->
               lookup(r, COL_WITNESS, request.data, "tx not found")
          [] request.path = P_merkle ->
               lookup(r, COL_MERKLE_PROOFS, request.data, "app state not found")
          [] request.path = P_account -> account_query(request, r)
          [] OTHER -> [r EXCEPT !.log = Append(@, "invalid path"), !.code = 1]

query_handler(request) ==
    LET r == ResponseQuery_new
    IN  IF starts_with(request.path, P_slash_p2p) \/ starts_with(request.path, P_p2p)
        THEN r
        ELSE CASE request.path = P_mockencrypt -> handle_enc_dec(request, r)
               [] request.path = P_mockdecrypt -> handle_enc_dec(request, r)
               [] request.path = P_store -> store_query(request, r)
               [] request.path = P_meta ->
                    lookup(r, COL_TX_META, request.data, "tx not found")
               [] request.path = P_witness ->
                    lookup(r, COL_WITNESS, request.data, "tx not found")
               [] request.path = P_merkle ->
                    lookup(r, COL_MERKLE_PROOFS, request.data, "app state not found")
               [] request.path = P_account -> account_query(request, r)
               [] OTHER -> [r EXCEPT !.log = Append(@, "invalid path"), !.code = 1]


-----------------------------------------------------------------------------
(* The commit path *)

RECURSIVE SetToSeq(_)
SetToSeq(S) ==
    IF S = {} THEN <<>>
    ELSE LET m == CHOOSE x \in S : \A y \in S : x <= y
         IN  <<m>> \o SetToSeq(S \ {m})

(* QueryBorrowsApp with the borrow given up as soon as the handler is entered *)
QueryBorrowsApp_released == FALSE

(* query_handler(&self, ..) holds the shared borrow of the app from its entry
   until its response is taken: no &mut self method (InitChain, Commit) runs
   in between *)
QueryBorrowsApp == qpc # "idle"

(* the accounts (account number -> nonce) under the tip root *)
tip_nonces ==
    LET leaves == accounts[last_state[1].last_account_root_hash]
    IN  [n \in {a.val[1] : a \in DOMAIN leaves} |-> leaves[Address(n)].nonce]

GenesisNonces == [n \in {1} |-> 0]

(* the batch of one block: bodies, metadata and witnesses per TxId, the encoded
   tree under the app-hash and the app-hash under varint(height) *)
block_batch(height, txs, witnessed, tree, app_hash) ==
    [NoPuts EXCEPT
        ![COL_BODIES] = [k \in {TxId(n) : n \in txs} |-> TxBody(k.val[1])],
        ![COL_TX_META] = [k \in {TxId(n) : n \in txs} |-> TxMeta(k.val[1])],
        ![COL_WITNESS] = [k \in {TxId(n) : n \in witnessed} |-> TxWitness(k.val[1])],
        ![COL_MERKLE_PROOFS] = [k \in {app_hash} |-> MerkleTree_encode(tree)],
        ![COL_APP_STATES] = [k \in {encode_var_vec(height)} |-> app_hash]]

commit_state(height, txs, witnessed, nonces) ==
    LET tree == MerkleTree_new(SetToSeq(txs))
        root == account_root_of(nonces)
        app_hash == compute_app_hash(tree, root)
    IN  /\ storage' = db_write(storage, block_batch(height, txs, witnessed, tree, app_hash))
        /\ accounts' = [k \in DOMAIN accounts \cup {root} |->
                            IF k = root THEN account_leaves(nonces) ELSE accounts[k]]
        /\ last_state' = Some([last_block_height |-> height,
                               last_apphash |-> app_hash,
                               last_account_root_hash |-> root])
        /\ commits' = commits + 1

InitChain ==
    /\ last_state = None
    /\ ~QueryBorrowsApp
    /\ commit_state(0, {}, {}, GenesisNonces)
    /\ op' = "init_chain"
    /\ UNCHANGED <<mock_enc_dec, req, resp, qpc, qreads>>
    /\ UNCHANGED walletVars

(* the account changes one block may bring *)
AccountUpdates(nonces) ==
    {nonces}
    \cup {[nonces EXCEPT ![n] = @ + 1] : n \in {m \in DOMAIN nonces : nonces[m] < MaxNonce}}

Commit(txs, witnessed, nonces) ==
    /\ last_state # None
    /\ ~QueryBorrowsApp
    /\ last_height < MaxHeight
    /\ commit_state(last_height + 1, txs, witnessed, nonces)
    /\ op' = "commit"
    /\ UNCHANGED <<mock_enc_dec, req, resp, qpc, qreads>>
    /\ UNCHANGED walletVars

-----------------------------------------------------------------------------
(* Queries *)

RequestPaths ==
    {P_store, P_meta, P_witness, P_merkle, P_account, P_mockencrypt, P_mockdecrypt,
     P_filter_addr, P_filter_id, P_stores, P_p2}

(* data: the ids of the transactions and one more, the staking addresses, a
   string that is neither, the mock requests and the app-hash of the tip *)
RequestData ==
    {TxId(n) : n \in 1..(NumTx + 1)}
    \cup {Address(n) : n \in 1..NumAddr}
    \cup {Bytes(5, "raw", <<1>>),
          Blob("EncryptionRequest", <<1>>), Blob("DecryptionRequest", <<1, NumTx + 1>>)}
    \cup {last_state[i].last_apphash : i \in 1..Len(last_state)}

RequestHeights == (-1)..(MaxHeight + 1)

(* the paths that are queried at every height and with prove set and unset;
   the other paths, which read neither field, are queried at height 0 without
   prove *)
HeightPaths == {P_store, P_account, P_filter_addr}

(* Query that also stores the value it answered with (a response cache) *)
Query_caching(request) ==
    /\ qpc = "idle"
    /\ req' = request
    /\ resp' = query_handler(request)
    /\ op' = "query"
    /\ qpc' = "returned"
    /\ storage' = [storage EXCEPT ![COL_TX_META] =
                        [k \in DOMAIN @ \cup {request.data} |-> query_handler(request).value]]
    /\ UNCHANGED <<accounts, last_state, mock_enc_dec, qreads, commits>>
    /\ UNCHANGED walletVars

Query(request) ==
    /\ qpc = "idle"
    /\ req' = request
    /\ resp' = query_handler(request)
    /\ op' = "query"
    /\ qpc' = "returned"
    /\ UNCHANGED <<storage, accounts, last_state, mock_enc_dec, qreads, commits>>
    /\ UNCHANGED walletVars

NoRequest == RequestQuery(P_empty, EmptyBytes, 0, FALSE)

NoReads == [body |-> None, witness |-> None, app_hash |-> None, data |-> None,
            height |-> 0, at |-> <<>>]

(* the ABCI server takes the response (or the abort) of the handler *)
Deliver ==
    /\ qpc = "returned"
    /\ qpc' = "idle"
    /\ req' = NoRequest
    /\ resp' = ResponseQuery_new
    /\ qreads' = NoReads
    /\ op' = "deliver"
    /\ UNCHANGED <<storage, accounts, last_state, mock_enc_dec, commits>>
    /\ UNCHANGED walletVars

-----------------------------------------------------------------------------
(* The "store" path with prove set, read by read: each step is one access of
   the handler to the store or to last_state, in the order of the code.
   qreads.at lists, per access, the number of write batches committed by then. *)

SnapBegin(request) ==
    /\ qpc = "idle"
    /\ request.path = P_store
    /\ request.prove
    /\ req' = request
    /\ resp' = ResponseQuery_new
    /\ qreads' = NoReads
    /\ qpc' = "body"
    /\ op' = "snap_begin"
    /\ UNCHANGED <<storage, accounts, last_state, mock_enc_dec, commits>>
    /\ UNCHANGED walletVars

SnapReadBody ==
    /\ qpc = "body"
    /\ LET r == lookup(resp, COL_BODIES, req.data, "tx not found")
       IN  /\ resp' = r
           /\ qpc' = IF r.code = 0 THEN "witness" ELSE "returned"
    /\ qreads' = [qreads EXCEPT !.body = db_get(COL_BODIES, req.data),
                                !.at = Append(@, commits)]
    /\ op' = "snap_body"
    /\ UNCHANGED <<storage, accounts, last_state, mock_enc_dec, req, commits>>
    /\ UNCHANGED walletVars

SnapReadWitness ==
    /\ qpc = "witness"
    /\ LET mwitness == db_get(COL_WITNESS, req.data)
       IN  /\ qreads' = [qreads EXCEPT !.witness = mwitness, !.at = Append(@, commits)]
           /\ IF mwitness # None
              THEN qpc' = "state" /\ resp' = resp
              ELSE /\ qpc' = "returned"
                   /\ resp' = [resp EXCEPT
                                !.log = Append(@, "proof error: witness not found"),
                                !.code = 2]
    /\ op' = "snap_witness"
    /\ UNCHANGED <<storage, accounts, last_state, mock_enc_dec, req, commits>>
    /\ UNCHANGED walletVars

SnapReadState ==
    /\ qpc = "state"
    /\ qreads' = [qreads EXCEPT !.height = proof_height(req.height, last_height),
                                !.at = Append(@, commits)]
    /\ qpc' = "app_hash"
    /\ op' = "snap_state"
    /\ UNCHANGED <<storage, accounts, last_state, mock_enc_dec, req, resp, commits>>
    /\ UNCHANGED walletVars

SnapReadAppHash ==
    /\ qpc = "app_hash"
    /\ LET app_hash == db_get(COL_APP_STATES, encode_var_vec(qreads.height))
       IN  /\ qreads' = [qreads EXCEPT !.app_hash = app_hash, !.at = Append(@, commits)]
           /\ IF app_hash # None
              THEN qpc' = "tree" /\ resp' = resp
              ELSE qpc' = "returned" /\ resp' = Panic
    /\ op' = "snap_app_hash"
    /\ UNCHANGED <<storage, accounts, last_state, mock_enc_dec, req, commits>>
    /\ UNCHANGED walletVars

SnapReadTree ==
    /\ qpc = "tree"
    /\ LET data == db_get(COL_MERKLE_PROOFS, qreads.app_hash[1])
           tree == IF data = None THEN None ELSE MerkleTree_decode(data[1])
       IN  /\ qreads' = [qreads EXCEPT !.data = data, !.at = Append(@, commits)]
           /\ resp' = IF data = None \/ tree = None \/ ~copy_from_slice_ok(req.data)
                      THEN Panic
                      ELSE [resp EXCEPT
                                !.proof = proof_ops(tree[1], req.data, qreads.witness[1])]
    /\ qpc' = "returned"
    /\ op' = "snap_tree"
    /\ UNCHANGED <<storage, accounts, last_state, mock_enc_dec, req, commits>>
    /\ UNCHANGED walletVars

-----------------------------------------------------------------------------
(* The wallet client (client-core): DefaultWalletClientBuilder and
   DefaultWalletClient over the wallet storage and the Index collaborator.
   A call is one step; its Result stays in wres until the caller takes it. *)

Ok(v) == [ok |-> TRUE, val |-> v]
Err(kind) == [ok |-> FALSE, kind |-> kind]
Unit == <<>>

UnauthorizedStorage == "UnauthorizedStorage"
MemoryStorage == "MemoryStorage"
UnauthorizedIndex == "UnauthorizedIndex"
MockIndex == "MockIndex"
UnauthorizedTransactionBuilder == <<"UnauthorizedTransactionBuilder">>
DefaultTransactionBuilder(fee_algorithm) == <<"DefaultTransactionBuilder", fee_algorithm>>
ZeroFeeAlgorithm == "ZeroFeeAlgorithm"
UnitFeeAlgorithm == "UnitFeeAlgorithm"

DefaultWalletClientBuilder_default ==
    [storage |-> UnauthorizedStorage,
     index |-> UnauthorizedIndex,
     transaction_builder |-> UnauthorizedTransactionBuilder,
     storage_set |-> FALSE,
     index_set |-> FALSE,
     transaction_builder_set |-> FALSE]

with_wallet(self, new_storage) ==
    [self EXCEPT !.storage = new_storage, !.storage_set = TRUE]

with_transaction_read(self, new_index) ==
    [self EXCEPT !.index = new_index, !.index_set = TRUE]

with_transaction_write(self, new_transaction_builder) ==
    [self EXCEPT !.transaction_builder = new_transaction_builder,
                 !.transaction_builder_set = TRUE]

(* the four services share the one storage *)
DefaultWalletClient_new(new_storage, new_index, new_transaction_builder) ==
    [storage |-> new_storage,
     index |-> new_index,
     transaction_builder |-> new_transaction_builder]

(* build that accepts every combination *)
build_unchecked(self) ==
    Ok(DefaultWalletClient_new(self.storage, self.index, self.transaction_builder))

build(self) ==
    IF (~self.index_set /\ ~self.transaction_builder_set)
       \/ (self.storage_set /\ self.index_set)
    THEN Ok(DefaultWalletClient_new(self.storage, self.index, self.transaction_builder))
    ELSE Err("InvalidInput")

(* The wallet storage: a key/value store whose values are sealed under a
   passphrase.  UnauthorizedStorage refuses every access. *)
Sealed(value, passphrase) == [value |-> value, passphrase |-> passphrase]

get_secure(kind, keyspace, key, passphrase) ==
    IF kind = UnauthorizedStorage THEN Err("PermissionDenied")
    ELSE IF key \notin DOMAIN keyspace THEN Ok(None)
    ELSE IF keyspace[key].passphrase # passphrase THEN Err("PermissionDenied")
    ELSE Ok(Some(keyspace[key].value))

set_secure(keyspace, key, value, passphrase) ==
    [k \in DOMAIN keyspace \cup {key} |->
        IF k = key THEN Sealed(value, passphrase) ELSE keyspace[k]]

(* the state of the four keyspaces, and a Result together with the state a
   call leaves behind *)
St == [keys |-> key_store, wallets |-> wallet_store,
       roots |-> root_hash_store, sessions |-> session_store]

Out(res, st) == [res |-> res, st |-> st]

RECURSIVE SeqOf(_)
SeqOf(S) ==
    IF S = {} THEN <<>>
    ELSE LET x == CHOOSE y \in S : TRUE
         IN  <<x>> \o SeqOf(S \ {x})

Range(seq) == {seq[i] : i \in DOMAIN seq}

(* KeyService.  Public keys are numbered in the order of their generation. *)
PrivateKey(public_key) == <<"private key of", public_key>>

KeyService_generate_keypair(c, st, passphrase) ==
    IF c.storage = UnauthorizedStorage THEN Out(Err("PermissionDenied"), st)
    ELSE LET public_key == Cardinality(DOMAIN st.keys) + 1
         IN  Out(Ok(<<public_key, PrivateKey(public_key)>>),
                 [st EXCEPT !.keys =
                      set_secure(@, public_key, PrivateKey(public_key), passphrase)])

KeyService_private_key(c, st, public_key, passphrase) ==
    get_secure(c.storage, st.keys, public_key, passphrase)

(* WalletService *)
Wallet_new(view_key) == [view_key |-> view_key, public_keys |-> {}, root_hashes |-> {}]

RedeemAddress_from(public_key) == Bytes(REDEEM_ADDRESS_BYTES, "RedeemAddress", <<public_key>>)

BasicRedeem(redeem_address) == [type |-> "BasicRedeem", address |-> redeem_address]

OrTree(hash) == [type |-> "OrTree", root_hash |-> hash]

WalletService_names(c, st) ==
    IF c.storage = UnauthorizedStorage THEN Err("PermissionDenied")
    ELSE Ok(SeqOf(DOMAIN st.wallets))

WalletService_get_wallet(c, st, name, passphrase) ==
    LET got == get_secure(c.storage, st.wallets, name, passphrase)
    IN  IF ~got.ok THEN got
        ELSE IF got.val = None THEN Err("WalletNotFound")
        ELSE Ok(got.val[1])

WalletService_create(c, st, name, passphrase, view_key) ==
    IF c.storage = UnauthorizedStorage THEN Out(Err("PermissionDenied"), st)
    ELSE IF name \in DOMAIN st.wallets THEN Out(Err("InvalidInput"), st)
    ELSE Out(Ok(Unit),
             [st EXCEPT !.wallets = set_secure(@, name, Wallet_new(view_key), passphrase)])

WalletService_view_key(c, st, name, passphrase) ==
    LET w == WalletService_get_wallet(c, st, name, passphrase)
    IN  IF ~w.ok THEN w ELSE Ok(w.val.view_key)

WalletService_public_keys(c, st, name, passphrase) ==
    LET w == WalletService_get_wallet(c, st, name, passphrase)
    IN  IF ~w.ok THEN w ELSE Ok(SeqOf(w.val.public_keys))

WalletService_root_hashes(c, st, name, passphrase) ==
    LET w == WalletService_get_wallet(c, st, name, passphrase)
    IN  IF ~w.ok THEN w ELSE Ok(SeqOf(w.val.root_hashes))

WalletService_staking_addresses(c, st, name, passphrase) ==
    LET w == WalletService_get_wallet(c, st, name, passphrase)
    IN  IF ~w.ok THEN w
        ELSE Ok(SeqOf({BasicRedeem(RedeemAddress_from(k)) : k \in w.val.public_keys}))

WalletService_transfer_addresses(c, st, name, passphrase) ==
    LET w == WalletService_get_wallet(c, st, name, passphrase)
    IN  IF ~w.ok THEN w ELSE Ok(SeqOf({OrTree(h) : h \in w.val.root_hashes}))

WalletService_find_public_key(c, st, name, passphrase, redeem_address) ==
    LET w == WalletService_get_wallet(c, st, name, passphrase)
    IN  IF ~w.ok THEN w
        ELSE LET found == {k \in w.val.public_keys : RedeemAddress_from(k) = redeem_address}
             IN  Ok(IF found = {} THEN None ELSE Some(CHOOSE k \in found : TRUE))

WalletService_find_root_hash(c, st, name, passphrase, address) ==
    LET w == WalletService_get_wallet(c, st, name, passphrase)
    IN  IF ~w.ok THEN w
        ELSE Ok(IF address.root_hash \in w.val.root_hashes
                THEN Some(address.root_hash) ELSE None)

WalletService_add_public_key(c, st, name, passphrase, public_key) ==
    LET w == WalletService_get_wallet(c, st, name, passphrase)
    IN  IF ~w.ok THEN Out(w, st)
        ELSE Out(Ok(Unit),
                 [st EXCEPT !.wallets = set_secure(@, name,
                      [w.val EXCEPT !.public_keys = @ \cup {public_key}], passphrase)])

WalletService_add_root_hash(c, st, name, passphrase, hash) ==
    LET w == WalletService_get_wallet(c, st, name, passphrase)
    IN  IF ~w.ok THEN Out(w, st)
        ELSE Out(Ok(Unit),
                 [st EXCEPT !.wallets = set_secure(@, name,
                      [w.val EXCEPT !.root_hashes = @ \cup {hash}], passphrase)])

(* DefaultWalletClient: impl WalletClient *)
wallets(c, st) == WalletService_names(c, st)

(* new_wallet that writes the wallet record whether or not the name is taken *)
new_wallet_overwriting(c, st, name, passphrase) ==
    LET generated == KeyService_generate_keypair(c, st, passphrase)
    IN  IF ~generated.res.ok THEN generated
        ELSE Out(Ok(Unit),
                 [generated.st EXCEPT !.wallets =
                      set_secure(@, name, Wallet_new(generated.res.val[1]), passphrase)])

new_wallet(c, st, name, passphrase) ==
    LET generated == KeyService_generate_keypair(c, st, passphrase)
    IN  IF ~generated.res.ok THEN generated
        ELSE WalletService_create(c, generated.st, name, passphrase, generated.res.val[1])

view_key(c, st, name, passphrase) == WalletService_view_key(c, st, name, passphrase)

public_keys(c, st, name, passphrase) == WalletService_public_keys(c, st, name, passphrase)

root_hashes(c, st, name, passphrase) == WalletService_root_hashes(c, st, name, passphrase)

staking_addresses(c, st, name, passphrase) ==
    WalletService_staking_addresses(c, st, name, passphrase)

(* transfer_addresses that answers with no addresses when the wallet cannot
   be read *)
transfer_addresses_or_empty(c, st, name, passphrase) ==
    IF WalletService_transfer_addresses(c, st, name, passphrase).ok
    THEN WalletService_transfer_addresses(c, st, name, passphrase)
    ELSE Ok(<<>>)

transfer_addresses(c, st, name, passphrase) ==
    WalletService_transfer_addresses(c, st, name, passphrase)

find_public_key(c, st, name, passphrase, redeem_address) ==
    WalletService_find_public_key(c, st, name, passphrase, redeem_address)

find_root_hash(c, st, name, passphrase, address) ==
    WalletService_find_root_hash(c, st, name, passphrase, address)

private_key(c, st, passphrase, public_key) ==
    KeyService_private_key(c, st, public_key, passphrase)

(* new_public_key that returns the generated key whether or not the wallet
   took it *)
new_public_key_unchecked(c, st, name, passphrase) ==
    LET generated == KeyService_generate_keypair(c, st, passphrase)
    IN  IF ~generated.res.ok THEN generated
        ELSE Out(Ok(generated.res.val[1]),
                 WalletService_add_public_key(c, generated.st, name, passphrase,
                                              generated.res.val[1]).st)

new_public_key(c, st, name, passphrase) ==
    LET generated == KeyService_generate_keypair(c, st, passphrase)
    IN  IF ~generated.res.ok THEN generated
        ELSE LET added == WalletService_add_public_key(c, generated.st, name, passphrase,
                                                       generated.res.val[1])
             IN  IF ~added.res.ok THEN added
                 ELSE Out(Ok(generated.res.val[1]), added.st)

new_staking_address(c, st, name, passphrase) ==
    LET public_key == new_public_key(c, st, name, passphrase)
    IN  IF ~public_key.res.ok THEN public_key
        ELSE Out(Ok(BasicRedeem(RedeemAddress_from(public_key.res.val))), public_key.st)

(* RootHashService.  The root of the tree over the m-subsets of the signers
   is an injective tag over the signer set and m. *)
MultiSigAddress_root_hash(signers, m) == Bytes(HASH_SIZE_256, "OrTree root", <<signers, m>>)

RootHashService_new_root_hash(c, st, signer_keys, self_public_key, m, n, passphrase) ==
    IF Len(signer_keys) # n \/ m < 1 \/ m > n \/ self_public_key \notin Range(signer_keys)
    THEN Out(Err("InvalidInput"), st)
    ELSE IF c.storage = UnauthorizedStorage THEN Out(Err("PermissionDenied"), st)
    ELSE LET hash == MultiSigAddress_root_hash(Range(signer_keys), m)
         IN  Out(Ok(hash),
                 [st EXCEPT !.roots = set_secure(@, hash,
                      [m |-> m, n |-> n, public_keys |-> Range(signer_keys),
                       self_public_key |-> self_public_key], passphrase)])

RootHashService_required_signers(c, st, hash, passphrase) ==
    LET got == get_secure(c.storage, st.roots, hash, passphrase)
    IN  IF ~got.ok THEN got
        ELSE IF got.val = None THEN Err("NotFound")
        ELSE Ok(got.val[1].m)

(* new_multisig_transfer_address that returns the address without adding its
   root hash to the wallet *)
new_multisig_transfer_address_not_added(c, st, name, passphrase, signer_keys, self_public_key, m, n) ==
    LET checked == transfer_addresses(c, st, name, passphrase)
    IN  IF ~checked.ok THEN Out(checked, st)
        ELSE LET hash == RootHashService_new_root_hash(c, st, signer_keys, self_public_key,
                                                       m, n, passphrase)
             IN  IF ~hash.res.ok THEN hash
                 ELSE Out(Ok(OrTree(hash.res.val)), hash.st)

new_multisig_transfer_address(c, st, name, passphrase, signer_keys, self_public_key, m, n) ==
    LET checked == transfer_addresses(c, st, name, passphrase)
    IN  IF ~checked.ok THEN Out(checked, st)
        ELSE LET hash == RootHashService_new_root_hash(c, st, signer_keys, self_public_key,
                                                       m, n, passphrase)
             IN  IF ~hash.res.ok THEN hash
                 ELSE LET added == WalletService_add_root_hash(c, hash.st, name, passphrase,
                                                               hash.res.val)
                      IN  IF ~added.res.ok THEN added
                          ELSE Out(Ok(OrTree(hash.res.val)), added.st)

new_transfer_address(c, st, name, passphrase) ==
    LET public_key == new_public_key(c, st, name, passphrase)
    IN  IF ~public_key.res.ok THEN public_key
        ELSE new_multisig_transfer_address(c, public_key.st, name, passphrase,
                 <<public_key.res.val>>, public_key.res.val, 1, 1)

required_cosigners(c, st, name, passphrase, hash) ==
    LET checked == transfer_addresses(c, st, name, passphrase)
    IN  IF ~checked.ok THEN checked
        ELSE RootHashService_required_signers(c, st, hash, passphrase)

(* the inclusion proof of one combination of m signers in the tree of an address *)
Proof(signer_keys, hash) == [leaf |-> signer_keys, root |-> hash]

Proof_verify(proof, hash) ==
    /\ proof.root = hash
    /\ proof.leaf \subseteq hash.val[1]
    /\ Cardinality(proof.leaf) = hash.val[2]

RootHashService_generate_proof(c, st, hash, signer_keys, passphrase) ==
    LET got == get_secure(c.storage, st.roots, hash, passphrase)
    IN  IF ~got.ok THEN got
        ELSE IF got.val = None THEN Err("NotFound")
        ELSE IF Range(signer_keys) \subseteq got.val[1].public_keys
                /\ Cardinality(Range(signer_keys)) = got.val[1].m
        THEN Ok(Proof(Range(signer_keys), hash))
        ELSE Err("InvalidInput")

DefaultWalletClient_generate_proof(c, st, name, passphrase, address, signer_keys) ==
    LET checked == transfer_addresses(c, st, name, passphrase)
    IN  IF ~checked.ok THEN checked
        ELSE RootHashService_generate_proof(c, st, address.root_hash, signer_keys, passphrase)

(* Coin: an amount in 0..MAX_COIN.  MAX_COIN stands for the chain's maximum
   supply, scaled down so that sums of modelled amounts can exceed it. *)
MAX_COIN == 100

RECURSIVE sum_coins(_)
sum_coins(coins) ==
    IF coins = <<>> THEN Ok(0)
    ELSE LET rest == sum_coins(Tail(coins))
         IN  IF ~rest.ok THEN rest
             ELSE IF Head(coins) + rest.val > MAX_COIN THEN Err("CoinError")
             ELSE Ok(Head(coins) + rest.val)

(* The Index collaborator: what it reports for each address, and the addresses
   for which its lookup fails *)
TxoPointer(id, output_index) == [id |-> id, index |-> output_index]

TxOut(address, value) == [address |-> address, value |-> value]

AddressDetails_default ==
    [balance |-> 0, transaction_history |-> <<>>, unspent_transactions |-> <<>>]

Index_address_details(c, idx, address) ==
    IF c.index = UnauthorizedIndex THEN Err("PermissionDenied")
    ELSE IF address \in idx.failing THEN Err("StorageError")
    ELSE IF address \in DOMAIN idx.details THEN Ok(idx.details[address])
    ELSE Ok(AddressDetails_default)

Index_output(c, idx, input) ==
    IF c.index = UnauthorizedIndex THEN Err("PermissionDenied")
    ELSE LET found == {u \in UNION {Range(idx.details[a].unspent_transactions)
                                        : a \in DOMAIN idx.details} : u[1] = input}
         IN  IF found = {} THEN Err("TransactionNotFound")
             ELSE Ok((CHOOSE u \in found : TRUE)[2])

(* collect::<Result<Vec<_>>>: the first error, or all the values *)
Collect(results) ==
    IF \E i \in DOMAIN results : ~results[i].ok
    THEN results[CHOOSE i \in DOMAIN results :
                    ~results[i].ok /\ \A j \in 1..(i - 1) : results[j].ok]
    ELSE Ok([i \in DOMAIN results |-> results[i].val])

RECURSIVE Flatten(_)
Flatten(seqs) == IF seqs = <<>> THEN <<>> ELSE Head(seqs) \o Flatten(Tail(seqs))

(* balance that saturates at MAX_COIN when the sum overflows *)
balance_saturating(c, st, idx, name, passphrase) ==
    LET addresses == transfer_addresses(c, st, name, passphrase)
    IN  IF ~addresses.ok THEN addresses
        ELSE LET balances == Collect([i \in DOMAIN addresses.val |->
                     LET details == Index_address_details(c, idx, addresses.val[i])
                     IN  IF ~details.ok THEN details ELSE Ok(details.val.balance)])
             IN  IF ~balances.ok THEN balances
                 ELSE IF ~sum_coins(balances.val).ok THEN Ok(MAX_COIN)
                 ELSE sum_coins(balances.val)

balance(c, st, idx, name, passphrase) ==
    LET addresses == transfer_addresses(c, st, name, passphrase)
    IN  IF ~addresses.ok THEN addresses
        ELSE LET balances == Collect([i \in DOMAIN addresses.val |->
                     LET details == Index_address_details(c, idx, addresses.val[i])
                     IN  IF ~details.ok THEN details ELSE Ok(details.val.balance)])
             IN  IF ~balances.ok THEN balances
                 ELSE IF ~sum_coins(balances.val).ok THEN Err("BalanceAdditionError")
                 ELSE sum_coins(balances.val)

history(c, st, idx, name, passphrase) ==
    LET addresses == transfer_addresses(c, st, name, passphrase)
    IN  IF ~addresses.ok THEN addresses
        ELSE LET histories == Collect([i \in DOMAIN addresses.val |->
                     LET details == Index_address_details(c, idx, addresses.val[i])
                     IN  IF ~details.ok THEN details
                         ELSE Ok(details.val.transaction_history)])
             IN  IF ~histories.ok THEN histories ELSE Ok(Flatten(histories.val))

unspent_transactions(c, st, idx, name, passphrase) ==
    LET addresses == transfer_addresses(c, st, name, passphrase)
    IN  IF ~addresses.ok THEN addresses
        ELSE LET unspent == Collect([i \in DOMAIN addresses.val |->
                     LET details == Index_address_details(c, idx, addresses.val[i])
                     IN  IF ~details.ok THEN details
                         ELSE Ok(details.val.unspent_transactions)])
             IN  IF ~unspent.ok THEN unspent ELSE Ok(Flatten(unspent.val))

output(c, idx, input) == Index_output(c, idx, input)

(* UnspentTransactions::apply_all with the default strategy: largest value first *)
RECURSIVE apply_all(_)
apply_all(unspent) ==
    IF unspent = <<>> THEN <<>>
    ELSE LET i == CHOOSE j \in DOMAIN unspent :
                      /\ \A k \in DOMAIN unspent : unspent[k][2].value <= unspent[j][2].value
                      /\ \A k \in 1..(j - 1) : unspent[k][2].value < unspent[j][2].value
         IN  <<unspent[i]>> \o apply_all([k \in 1..(Len(unspent) - 1) |->
                                            IF k < i THEN unspent[k] ELSE unspent[k + 1]])

RECURSIVE SumValues(_)
SumValues(outs) == IF outs = <<>> THEN 0 ELSE Head(outs).value + SumValues(Tail(outs))

calculate_fee(fee_algorithm) == IF fee_algorithm = ZeroFeeAlgorithm THEN 0 ELSE 1

(* the shortest prefix of the unspent outputs that covers an amount *)
select_inputs(unspent, amount) ==
    LET covers(n) == SumValues([k \in 1..n |-> unspent[k][2]]) >= amount
    IN  SubSeq(unspent, 1, CHOOSE n \in 0..Len(unspent) :
                              covers(n) /\ \A k \in 0..(n - 1) : ~covers(k))

Tx(inputs, outputs) == [inputs |-> inputs, outputs |-> outputs]

TxAux_encode(tx_aux) == Blob("TxAux", <<tx_aux>>)

TxAux_decode(bytes) == bytes.val[1]

TransactionBuilder_build(c, name, passphrase, outputs, unspent, return_address) ==
    IF c.transaction_builder = UnauthorizedTransactionBuilder THEN Err("PermissionDenied")
    ELSE LET amount == SumValues(outputs) + calculate_fee(c.transaction_builder[2])
             total == SumValues([k \in DOMAIN unspent |-> unspent[k][2]])
         IN  IF total < amount THEN Err("InsufficientBalance")
             ELSE LET selected == select_inputs(unspent, amount)
                      change == SumValues([k \in DOMAIN selected |-> selected[k][2]]) - amount
                  IN  Ok(Tx([k \in DOMAIN selected |-> selected[k][1]],
                            IF change > 0
                            THEN Append(outputs, TxOut(return_address, change))
                            ELSE outputs))

(* create_transaction that offers the builder only the first unspent output *)
create_transaction_first_only(c, st, idx, name, passphrase, outputs, return_address) ==
    LET unspent == unspent_transactions(c, st, idx, name, passphrase)
    IN  IF ~unspent.ok THEN unspent
        ELSE TransactionBuilder_build(c, name, passphrase, outputs,
                                      SubSeq(apply_all(unspent.val), 1,
                                             IF unspent.val = <<>> THEN 0 ELSE 1),
                                      return_address)

create_transaction(c, st, idx, name, passphrase, outputs, return_address) ==
    LET unspent == unspent_transactions(c, st, idx, name, passphrase)
    IN  IF ~unspent.ok THEN unspent
        ELSE TransactionBuilder_build(c, name, passphrase, outputs,
                                      apply_all(unspent.val), return_address)

(* the index after it has taken a transaction: the inputs are spent and the
   outputs are unspent outputs of their addresses *)
IndexDetails(idx, address) ==
    IF address \in DOMAIN idx.details THEN idx.details[address] ELSE AddressDetails_default

Index_apply(idx, tx) ==
    LET spent == Range(tx.inputs)
        touched == DOMAIN idx.details \cup {tx.outputs[k].address : k \in DOMAIN tx.outputs}
        kept(a) == SelectSeq(IndexDetails(idx, a).unspent_transactions,
                             LAMBDA u : u[1] \notin spent)
        received(a) == [k \in DOMAIN tx.outputs |->
                           <<TxoPointer(TxId(tx), k - 1), tx.outputs[k]>>]
        new_unspent(a) == kept(a) \o SelectSeq(received(a), LAMBDA u : u[2].address = a)
    IN  [idx EXCEPT
            !.details = [a \in touched |->
                [balance |-> SumValues([k \in DOMAIN new_unspent(a) |-> new_unspent(a)[k][2]]),
                 transaction_history |->
                     IndexDetails(idx, a).transaction_history
                     \o (IF new_unspent(a) = IndexDetails(idx, a).unspent_transactions
                         THEN <<>> ELSE <<TxId(tx)>>),
                 unspent_transactions |-> new_unspent(a)]]]

Index_broadcast_transaction(c, idx, bytes) ==
    IF c.index = UnauthorizedIndex THEN Out(Err("PermissionDenied"), idx)
    ELSE Out(Ok(Unit), Index_apply(idx, TxAux_decode(bytes)))

broadcast_transaction(c, idx, tx_aux) ==
    Index_broadcast_transaction(c, idx, TxAux_encode(tx_aux))

(* MultiSigSessionService: one session per signer, sealed under the passphrase.
   A signer's own nonce and nonce commitment are in the session from the
   start; the other signers' contributions arrive round by round *)
SessionId(message, signer_public_keys, self_public_key) ==
    Bytes(HASH_SIZE_256, "session", <<message, signer_public_keys, self_public_key>>)

NonceOf(public_key, message) == Blob("nonce", <<public_key, message>>)

NonceCommitment(revealed) == Bytes(HASH_SIZE_256, "H(nonce)", <<revealed>>)

(* H(X, R, m): the challenge over the aggregated key of the signers, the
   aggregated nonce and the message *)
Challenge(signers, aggregate, message) ==
    Bytes(HASH_SIZE_256, "H(X,R,m)", <<signers, aggregate, message>>)

(* s_i = r_i + H(X, R, m) x_i, told apart by the signer, the nonce and the
   challenge it was made with *)
PartialSignatureOf(public_key, revealed, challenge) ==
    [public_key |-> public_key, nonce |-> revealed, challenge |-> challenge]

SchnorrSignature(aggregate, partials) == [R |-> aggregate, s |-> partials]

(* s G = R + H(X, R, m) X *)
SchnorrSignature_verify(sig, signers, message) ==
    /\ {partial.public_key : partial \in sig.s} = signers
    /\ Cardinality(sig.s) = Cardinality(signers)
    /\ {partial.nonce : partial \in sig.s} = sig.R
    /\ \A partial \in sig.s : partial.challenge = Challenge(signers, sig.R, message)

Signer_new == [nonce_commitment |-> None, nonce |-> None, partial_signature |-> None]

AggregateNonce(session) ==
    {session.signers[k].nonce[1] : k \in {j \in DOMAIN session.signers :
                                             session.signers[j].nonce # None}}

SessionChallenge(session) ==
    Challenge(DOMAIN session.signers, AggregateNonce(session), session.message)

AllCommitments(session) ==
    \A k \in DOMAIN session.signers : session.signers[k].nonce_commitment # None

AllNonces(session) ==
    \A k \in DOMAIN session.signers : session.signers[k].nonce # None

AllPartials(session) ==
    \A k \in DOMAIN session.signers : session.signers[k].partial_signature # None

MultiSigSessionService_get(c, st, session_id, passphrase) ==
    LET got == get_secure(c.storage, st.sessions, session_id, passphrase)
    IN  IF ~got.ok THEN got
        ELSE IF got.val = None THEN Err("NotFound")
        ELSE Ok(got.val[1])

MultiSigSessionService_set(st, session_id, session, passphrase) ==
    [st EXCEPT !.sessions = set_secure(@, session_id, session, passphrase)]

(* an aborted session is gone *)
MultiSigSessionService_abort(st, session_id) ==
    [st EXCEPT !.sessions = [k \in DOMAIN @ \ {session_id} |-> @[k]]]

MultiSigSessionService_new_session(c, st, message, signer_public_keys, self_public_key, self_private_key, passphrase) ==
    IF c.storage = UnauthorizedStorage THEN Out(Err("PermissionDenied"), st)
    ELSE IF self_public_key \notin Range(signer_public_keys) THEN Out(Err("InvalidInput"), st)
    ELSE LET session_id == SessionId(message, signer_public_keys, self_public_key)
             own == NonceOf(self_public_key, message)
             session ==
                 [message |-> message,
                  signers |-> [k \in Range(signer_public_keys) |->
                                  IF k = self_public_key
                                  THEN [Signer_new EXCEPT
                                           !.nonce_commitment = Some(NonceCommitment(own)),
                                           !.nonce = Some(own)]
                                  ELSE Signer_new],
                  self_public_key |-> self_public_key,
                  self_private_key |-> self_private_key]
         IN  Out(Ok(session_id),
                 MultiSigSessionService_set(st, session_id, session, passphrase))

MultiSigSessionService_nonce_commitment(c, st, session_id, passphrase) ==
    LET got == MultiSigSessionService_get(c, st, session_id, passphrase)
    IN  IF ~got.ok THEN got
        ELSE Ok(got.val.signers[got.val.self_public_key].nonce_commitment[1])

MultiSigSessionService_add_nonce_commitment(c, st, session_id, nonce_commitment, public_key, passphrase) ==
    LET got == MultiSigSessionService_get(c, st, session_id, passphrase)
    IN  IF ~got.ok THEN Out(got, st)
        ELSE IF public_key \notin DOMAIN got.val.signers THEN Out(Err("InvalidInput"), st)
        ELSE IF got.val.signers[public_key].nonce_commitment = Some(nonce_commitment)
        THEN Out(Ok(Unit), st)
        ELSE IF got.val.signers[public_key].nonce_commitment # None
        THEN Out(Err("InvalidInput"), MultiSigSessionService_abort(st, session_id))
        ELSE Out(Ok(Unit),
                 MultiSigSessionService_set(st, session_id,
                     [got.val EXCEPT !.signers[public_key].nonce_commitment =
                                         Some(nonce_commitment)], passphrase))

MultiSigSessionService_nonce(c, st, session_id, passphrase) ==
    LET got == MultiSigSessionService_get(c, st, session_id, passphrase)
    IN  IF ~got.ok THEN got
        ELSE IF ~AllCommitments(got.val) THEN Err("NonceNotReady")
        ELSE Ok(got.val.signers[got.val.self_public_key].nonce[1])

MultiSigSessionService_add_nonce(c, st, session_id, revealed, public_key, passphrase) ==
    LET got == MultiSigSessionService_get(c, st, session_id, passphrase)
    IN  IF ~got.ok THEN Out(got, st)
        ELSE IF ~AllCommitments(got.val) THEN Out(Err("NonceNotReady"), st)
        ELSE IF public_key \notin DOMAIN got.val.signers THEN Out(Err("InvalidInput"), st)
        ELSE IF got.val.signers[public_key].nonce_commitment # Some(NonceCommitment(revealed))
        THEN Out(Err("InvalidNonce"), MultiSigSessionService_abort(st, session_id))
        ELSE Out(Ok(Unit),
                 MultiSigSessionService_set(st, session_id,
                     [got.val EXCEPT !.signers[public_key].nonce = Some(revealed)],
                     passphrase))

MultiSigSessionService_partial_signature(c, st, session_id, passphrase) ==
    LET got == MultiSigSessionService_get(c, st, session_id, passphrase)
    IN  IF ~got.ok THEN Out(got, st)
        ELSE IF ~AllNonces(got.val) THEN Out(Err("PartialNotReady"), st)
        ELSE LET own == PartialSignatureOf(got.val.self_public_key,
                            got.val.signers[got.val.self_public_key].nonce[1],
                            SessionChallenge(got.val))
             IN  Out(Ok(own),
                     MultiSigSessionService_set(st, session_id,
                         [got.val EXCEPT
                             !.signers[got.val.self_public_key].partial_signature =
                                 Some(own)], passphrase))

MultiSigSessionService_add_partial_signature(c, st, session_id, partial, public_key, passphrase) ==
    LET got == MultiSigSessionService_get(c, st, session_id, passphrase)
    IN  IF ~got.ok THEN Out(got, st)
        ELSE IF ~AllNonces(got.val) THEN Out(Err("PartialNotReady"), st)
        ELSE IF public_key \notin DOMAIN got.val.signers THEN Out(Err("InvalidInput"), st)
        ELSE IF partial # PartialSignatureOf(public_key, got.val.signers[public_key].nonce[1],
                                              SessionChallenge(got.val))
        THEN Out(Err("InvalidSignature"), MultiSigSessionService_abort(st, session_id))
        ELSE Out(Ok(Unit),
                 MultiSigSessionService_set(st, session_id,
                     [got.val EXCEPT !.signers[public_key].partial_signature =
                                         Some(partial)], passphrase))

MultiSigSessionService_signature(c, st, session_id, passphrase) ==
    LET got == MultiSigSessionService_get(c, st, session_id, passphrase)
    IN  IF ~got.ok THEN got
        ELSE IF ~AllPartials(got.val) THEN Err("PartialNotReady")
        ELSE Ok(SchnorrSignature(AggregateNonce(got.val),
                                 {got.val.signers[k].partial_signature[1]
                                     : k \in DOMAIN got.val.signers}))

(* MultiSigWalletClient for DefaultWalletClient *)
(* PrivateKey::schnorr_sign: the signature is a tag over the key and the message *)
PrivateKey_schnorr_sign(signing_key, message) ==
    Ok([type |-> "SchnorrSignature", signing_key |-> signing_key, message |-> message])

schnorr_signature(c, st, name, passphrase, message, public_key) ==
    LET addresses == transfer_addresses(c, st, name, passphrase)
    IN  IF ~addresses.ok THEN addresses
        ELSE LET signing_key == private_key(c, st, passphrase, public_key)
             IN  IF ~signing_key.ok THEN signing_key
                 ELSE IF signing_key.val = None THEN Err("PrivateKeyNotFound")
                 ELSE PrivateKey_schnorr_sign(signing_key.val[1], message)

(* new_multi_sig_session without the check of the wallet *)
new_multi_sig_session_unchecked(c, st, name, passphrase, message, signer_public_keys, self_public_key) ==
    LET self_private_key == private_key(c, st, passphrase, self_public_key)
    IN  IF ~self_private_key.ok THEN Out(self_private_key, st)
        ELSE IF self_private_key.val = None THEN Out(Err("PrivateKeyNotFound"), st)
        ELSE MultiSigSessionService_new_session(c, st, message,
                 signer_public_keys, self_public_key, self_private_key.val[1],
                 passphrase)

new_multi_sig_session(c, st, name, passphrase, message, signer_public_keys, self_public_key) ==
    LET addresses == transfer_addresses(c, st, name, passphrase)
    IN  IF ~addresses.ok THEN Out(addresses, st)
        ELSE LET self_private_key == private_key(c, st, passphrase, self_public_key)
             IN  IF ~self_private_key.ok THEN Out(self_private_key, st)
                 ELSE IF self_private_key.val = None THEN Out(Err("PrivateKeyNotFound"), st)
                 ELSE MultiSigSessionService_new_session(c, st, message,
                          signer_public_keys, self_public_key, self_private_key.val[1],
                          passphrase)

nonce_commitment(c, st, session_id, passphrase) ==
    MultiSigSessionService_nonce_commitment(c, st, session_id, passphrase)

(* add_nonce_commitment that answers Ok, and keeps the session, whatever the
   service says *)
add_nonce_commitment_forgiving(c, st, session_id, passphrase, commitment, public_key) ==
    LET added == MultiSigSessionService_add_nonce_commitment(c, st, session_id, commitment,
                                                             public_key, passphrase)
    IN  IF added.res.ok THEN added ELSE Out(Ok(Unit), st)

add_nonce_commitment(c, st, session_id, passphrase, commitment, public_key) ==
    MultiSigSessionService_add_nonce_commitment(c, st, session_id, commitment, public_key,
                                                passphrase)

(* nonce that reveals the session's own nonce without asking the service
   whether the commitments are in *)
nonce_unready(c, st, session_id, passphrase) ==
    LET got == MultiSigSessionService_get(c, st, session_id, passphrase)
    IN  IF ~got.ok THEN got
        ELSE Ok(got.val.signers[got.val.self_public_key].nonce[1])

nonce(c, st, session_id, passphrase) ==
    MultiSigSessionService_nonce(c, st, session_id, passphrase)

(* add_nonce that drops the session when the service refuses the nonce *)
add_nonce_dropping(c, st, session_id, passphrase, revealed, public_key) ==
    LET added == MultiSigSessionService_add_nonce(c, st, session_id, revealed, public_key,
                                                  passphrase)
    IN  IF added.res.ok THEN added
        ELSE Out(added.res, MultiSigSessionService_abort(st, session_id))

add_nonce(c, st, session_id, passphrase, revealed, public_key) ==
    MultiSigSessionService_add_nonce(c, st, session_id, revealed, public_key, passphrase)

partial_signature(c, st, session_id, passphrase) ==
    MultiSigSessionService_partial_signature(c, st, session_id, passphrase)

add_partial_signature(c, st, session_id, passphrase, partial, public_key) ==
    MultiSigSessionService_add_partial_signature(c, st, session_id, partial, public_key,
                                                 passphrase)

(* signature that returns the session's own partial signature as the whole *)
signature_own_partial(c, st, session_id, passphrase) ==
    LET got == MultiSigSessionService_get(c, st, session_id, passphrase)
    IN  IF ~got.ok THEN got
        ELSE IF ~AllPartials(got.val) THEN Err("PartialNotReady")
        ELSE Ok(SchnorrSignature(AggregateNonce(got.val),
                    {got.val.signers[got.val.self_public_key].partial_signature[1]}))

signature(c, st, session_id, passphrase) ==
    MultiSigSessionService_signature(c, st, session_id, passphrase)

(* TxInWitness::TreeSig and verify_tx_address *)
TreeSig(sig, proof) == [sig |-> sig, proof |-> proof]

verify_tx_address(witness, txid, address) ==
    /\ Proof_verify(witness.proof, address.root_hash)
    /\ SchnorrSignature_verify(witness.sig, witness.proof.leaf, txid)

(* TransactionChange (client-common) *)
Incoming(value) == [kind |-> "Incoming", value |-> value]

Outgoing(value) == [kind |-> "Outgoing", value |-> value]

(* Coin + &BalanceChange: checked addition and subtraction *)
Coin_add_BalanceChange(coin, balance_change) ==
    IF balance_change.kind = "Incoming"
    THEN (IF coin + balance_change.value > MAX_COIN THEN Err("BalanceAdditionError")
          ELSE Ok(coin + balance_change.value))
    ELSE (IF balance_change.value > coin THEN Err("InsufficientBalance")
          ELSE Ok(coin - balance_change.value))

TransactionChange(transaction_id, address, balance_change, block_height, block_time) ==
    [transaction_id |-> transaction_id, address |-> address,
     balance_change |-> balance_change, block_height |-> block_height,
     block_time |-> block_time]

(* Coin + &TransactionChange that stops at the bounds instead of failing *)
Coin_add_ref_saturating(coin, other) ==
    IF other.balance_change.kind = "Incoming"
    THEN Ok(IF coin + other.balance_change.value > MAX_COIN THEN MAX_COIN
            ELSE coin + other.balance_change.value)
    ELSE Ok(IF other.balance_change.value > coin THEN 0
            ELSE coin - other.balance_change.value)

(* impl Add<&TransactionChange> for Coin *)
Coin_add_ref(coin, other) == Coin_add_BalanceChange(coin, other.balance_change)

(* impl Add<TransactionChange> for Coin *)
Coin_add(coin, other) == Coin_add_ref(coin, other)

(* DateTime<Utc>: a calendar time with nanoseconds; a leap second is second
   59 with a nanosecond count of a whole second and more *)
DateTime(year, month, day, hour, minute, second, nano) ==
    [year |-> year, month |-> month, day |-> day, hour |-> hour, minute |-> minute,
     second |-> second, nano |-> nano]

DigitChars == <<"0", "1", "2", "3", "4", "5", "6", "7", "8", "9">>

RECURSIVE Digits(_, _)
Digits(n, width) ==
    IF width = 0 THEN <<>> ELSE Append(Digits(n \div 10, width - 1), DigitChars[(n % 10) + 1])

DigitValue(ch) == (CHOOSE d \in DOMAIN DigitChars : DigitChars[d] = ch) - 1

IsDigits(chars) == \A i \in DOMAIN chars : chars[i] \in Range(DigitChars)

RECURSIVE ParseNat(_)
ParseNat(chars) ==
    IF chars = <<>> THEN 0
    ELSE ParseNat(SubSeq(chars, 1, Len(chars) - 1)) * 10 + DigitValue(chars[Len(chars)])

RECURSIVE Pow10(_)
Pow10(k) == IF k = 0 THEN 1 ELSE 10 * Pow10(k - 1)

(* the fraction of a second: none, or 3, 6 or 9 digits, as many as it takes *)
Fraction(nano) ==
    IF nano = 0 THEN <<>>
    ELSE IF nano % 1000000 = 0 THEN <<".">> \o Digits(nano \div 1000000, 3)
    ELSE IF nano % 1000 = 0 THEN <<".">> \o Digits(nano \div 1000, 6)
    ELSE <<".">> \o Digits(nano, 9)

(* to_rfc3339 cut to the millisecond *)
to_rfc3339_millis(t) ==
    Digits(t.year, 4) \o <<"-">> \o Digits(t.month, 2) \o <<"-">> \o Digits(t.day, 2)
    \o <<"T">> \o Digits(t.hour, 2) \o <<":">> \o Digits(t.minute, 2) \o <<":">>
    \o Digits(t.second + (t.nano \div 1000000000), 2)
    \o <<".">> \o Digits((t.nano % 1000000000) \div 1000000, 3)
    \o <<"+", "0", "0", ":", "0", "0">>

to_rfc3339(t) ==
    Digits(t.year, 4) \o <<"-">> \o Digits(t.month, 2) \o <<"-">> \o Digits(t.day, 2)
    \o <<"T">> \o Digits(t.hour, 2) \o <<":">> \o Digits(t.minute, 2) \o <<":">>
    \o Digits(t.second + (t.nano \div 1000000000), 2)
    \o Fraction(t.nano % 1000000000)
    \o <<"+", "0", "0", ":", "0", "0">>

(* DateTime::<Utc>::from_str: date, "T", time, an optional fraction of up to
   nine digits, and the offset *)
DateTime_from_str(text) ==
    LET at(i, j) == SubSeq(text, i, j)
        dotted == Len(text) > 20 /\ text[20] = "."
        frac_end == IF dotted
                    THEN CHOOSE j \in 20..Len(text) :
                            /\ \A k \in 21..j : text[k] \in Range(DigitChars)
                            /\ (j = Len(text) \/ text[j + 1] \notin Range(DigitChars))
                    ELSE 19
        frac == at(21, frac_end)
        second == ParseNat(at(18, 19))
    IN  IF /\ Len(text) >= 25
           /\ IsDigits(at(1, 4)) /\ text[5] = "-" /\ IsDigits(at(6, 7)) /\ text[8] = "-"
           /\ IsDigits(at(9, 10)) /\ text[11] = "T" /\ IsDigits(at(12, 13))
           /\ text[14] = ":" /\ IsDigits(at(15, 16)) /\ text[17] = ":"
           /\ IsDigits(at(18, 19))
           /\ (dotted => Len(frac) \in 1..9)
           /\ at(frac_end + 1, Len(text)) = <<"+", "0", "0", ":", "0", "0">>
           /\ ParseNat(at(6, 7)) \in 1..12 /\ ParseNat(at(9, 10)) \in 1..31
           /\ ParseNat(at(12, 13)) < 24 /\ ParseNat(at(15, 16)) < 60 /\ second <= 60
        THEN Ok(DateTime(ParseNat(at(1, 4)), ParseNat(at(6, 7)), ParseNat(at(9, 10)),
                         ParseNat(at(12, 13)), ParseNat(at(15, 16)),
                         IF second = 60 THEN 59 ELSE second,
                         (IF dotted THEN ParseNat(frac) * Pow10(9 - Len(frac)) ELSE 0)
                         + (IF second = 60 THEN 1000000000 ELSE 0)))
        ELSE Err("Unable to parse block time")

(* The encoded form is the sequence of the encoded fields; each field is read
   back by its width, a text by the length written before it *)
Field(width, val) == [width |-> width, val |-> val]

U64_SIZE == 8

Encode_TxId(transaction_id) == Field(HASH_SIZE_256, transaction_id)

Encode_ExtendedAddr(address) == Field(1 + HASH_SIZE_256, address)

Encode_BalanceChange(balance_change) == Field(1 + U64_SIZE, balance_change)

Encode_u64(n) == Field(U64_SIZE, n)

Encode_String(text) == Field(1 + Len(text), text)

Decode_field(input, at, width) ==
    IF at > Len(input) THEN Err("Not enough data to fill buffer")
    ELSE IF width # 0 /\ input[at].width # width THEN Err("Could not decode")
    ELSE Ok(input[at].val)

(* encode_to that writes the block time to the millisecond *)
TransactionChange_encode_millis(self) ==
    <<Encode_TxId(self.transaction_id),
      Encode_ExtendedAddr(self.address),
      Encode_BalanceChange(self.balance_change),
      Encode_u64(self.block_height),
      Encode_String(to_rfc3339_millis(self.block_time))>>

TransactionChange_encode(self) ==
    <<Encode_TxId(self.transaction_id),
      Encode_ExtendedAddr(self.address),
      Encode_BalanceChange(self.balance_change),
      Encode_u64(self.block_height),
      Encode_String(to_rfc3339(self.block_time))>>

TransactionChange_decode(input) ==
    LET transaction_id == Decode_field(input, 1, HASH_SIZE_256)
        address == Decode_field(input, 2, 1 + HASH_SIZE_256)
        balance_change == Decode_field(input, 3, 1 + U64_SIZE)
        block_height == Decode_field(input, 4, U64_SIZE)
        text == Decode_field(input, 5, 0)
    IN  IF ~transaction_id.ok THEN transaction_id
        ELSE IF ~address.ok THEN address
        ELSE IF ~balance_change.ok THEN balance_change
        ELSE IF ~block_height.ok THEN block_height
        ELSE IF ~text.ok THEN text
        ELSE LET block_time == DateTime_from_str(text.val)
             IN  IF ~block_time.ok THEN block_time
                 ELSE Ok(TransactionChange(transaction_id.val, address.val,
                                           balance_change.val, block_height.val,
                                           block_time.val))

Call(name, args) == [op |-> name, args |-> args]
NoCall == Call("none", <<>>)

With_wallet ==
    /\ wpc = "idle"
    /\ builder # None
    /\ builder' = Some(with_wallet(builder[1], MemoryStorage))
    /\ UNCHANGED <<client, storeVars, index, wcall, wres, wpc>>
    /\ UNCHANGED <<nodeVars, mock_enc_dec, req, resp, op, qpc, qreads, commits>>

With_transaction_read ==
    /\ wpc = "idle"
    /\ builder # None
    /\ builder' = Some(with_transaction_read(builder[1], MockIndex))
    /\ UNCHANGED <<client, storeVars, index, wcall, wres, wpc>>
    /\ UNCHANGED <<nodeVars, mock_enc_dec, req, resp, op, qpc, qreads, commits>>

With_transaction_write(fee_algorithm) ==
    /\ wpc = "idle"
    /\ builder # None
    /\ builder' = Some(with_transaction_write(builder[1],
                                              DefaultTransactionBuilder(fee_algorithm)))
    /\ UNCHANGED <<client, storeVars, index, wcall, wres, wpc>>
    /\ UNCHANGED <<nodeVars, mock_enc_dec, req, resp, op, qpc, qreads, commits>>

(* build(self) consumes the builder *)
Build ==
    /\ wpc = "idle"
    /\ builder # None
    /\ wcall' = Call("build", <<builder[1]>>)
    /\ wres' = build(builder[1])
    /\ client' = IF build(builder[1]).ok THEN Some(build(builder[1]).val) ELSE None
    /\ builder' = None
    /\ wpc' = "returned"
    /\ UNCHANGED <<storeVars, index>>
    /\ UNCHANGED <<nodeVars, mock_enc_dec, req, resp, op, qpc, qreads, commits>>

(* A call on the built client that reads, and one that may write the storage *)
ReadCall(name, args, res) ==
    /\ wpc = "idle"
    /\ wcall' = Call(name, args)
    /\ wres' = res
    /\ wpc' = "returned"
    /\ UNCHANGED <<builder, client, storeVars, index>>
    /\ UNCHANGED <<nodeVars, mock_enc_dec, req, resp, op, qpc, qreads, commits>>

WriteCall(name, args, out) ==
    /\ wpc = "idle"
    /\ wcall' = Call(name, args)
    /\ wres' = out.res
    /\ wpc' = "returned"
    /\ key_store' = out.st.keys
    /\ wallet_store' = out.st.wallets
    /\ root_hash_store' = out.st.roots
    /\ session_store' = out.st.sessions
    /\ UNCHANGED <<builder, client, index>>
    /\ UNCHANGED <<nodeVars, mock_enc_dec, req, resp, op, qpc, qreads, commits>>

WalletNames == {"wallet_1", "wallet_2"}

Passphrases == {"passphrase", "passphrase_2"}

PublicKeys == 1..MaxKeys

(* public keys of co-signers: they were not generated by this key service *)
SignerKeys == (MaxKeys + 1)..(MaxKeys + NumSigners)

FirstSigner == MaxKeys + 1

(* a call that generates a key pair is made while the key store has room *)
KeyRoom == Cardinality(DOMAIN key_store) < MaxKeys

(* the inputs of new_multisig_transfer_address: all co-signers with m of 1
   and 2 and the first of them as self, and the same with a self key that is
   no signer and with an n that is not the number of signers *)
MultiSigInputs ==
    {[signer_keys |-> SetToSeq(SignerKeys), self_public_key |-> FirstSigner,
      m |-> m, n |-> NumSigners] : m \in 1..2}
    \cup {[signer_keys |-> SetToSeq(SignerKeys \ {FirstSigner}),
            self_public_key |-> FirstSigner, m |-> 1, n |-> NumSigners - 1],
          [signer_keys |-> SetToSeq(SignerKeys), self_public_key |-> FirstSigner,
            m |-> 1, n |-> NumSigners - 1]}

RootHashes ==
    {MultiSigAddress_root_hash({k}, 1) : k \in PublicKeys}
    \cup {MultiSigAddress_root_hash(SignerKeys, m) : m \in 1..2}

FeeAlgorithms == {ZeroFeeAlgorithm, UnitFeeAlgorithm}

Wallets ==
    /\ client # None
    /\ ReadCall("wallets", <<>>, wallets(client[1], St))

New_wallet(name, passphrase) ==
    /\ client # None
    /\ KeyRoom
    /\ WriteCall("new_wallet", <<name, passphrase>>,
                 new_wallet(client[1], St, name, passphrase))

View_key(name, passphrase) ==
    /\ client # None
    /\ ReadCall("view_key", <<name, passphrase>>,
                view_key(client[1], St, name, passphrase))

Public_keys(name, passphrase) ==
    /\ client # None
    /\ ReadCall("public_keys", <<name, passphrase>>,
                public_keys(client[1], St, name, passphrase))

Root_hashes(name, passphrase) ==
    /\ client # None
    /\ ReadCall("root_hashes", <<name, passphrase>>,
                root_hashes(client[1], St, name, passphrase))

Staking_addresses(name, passphrase) ==
    /\ client # None
    /\ ReadCall("staking_addresses", <<name, passphrase>>,
                staking_addresses(client[1], St, name, passphrase))

Transfer_addresses(name, passphrase) ==
    /\ client # None
    /\ ReadCall("transfer_addresses", <<name, passphrase>>,
                transfer_addresses(client[1], St, name, passphrase))

Find_public_key(name, passphrase, redeem_address) ==
    /\ client # None
    /\ ReadCall("find_public_key", <<name, passphrase, redeem_address>>,
                find_public_key(client[1], St, name, passphrase, redeem_address))

Find_root_hash(name, passphrase, address) ==
    /\ client # None
    /\ ReadCall("find_root_hash", <<name, passphrase, address>>,
                find_root_hash(client[1], St, name, passphrase, address))

Private_key(passphrase, public_key) ==
    /\ client # None
    /\ ReadCall("private_key", <<passphrase, public_key>>,
                private_key(client[1], St, passphrase, public_key))

New_public_key(name, passphrase) ==
    /\ client # None
    /\ KeyRoom
    /\ WriteCall("new_public_key", <<name, passphrase>>,
                 new_public_key(client[1], St, name, passphrase))

New_staking_address(name, passphrase) ==
    /\ client # None
    /\ KeyRoom
    /\ WriteCall("new_staking_address", <<name, passphrase>>,
                 new_staking_address(client[1], St, name, passphrase))

New_transfer_address(name, passphrase) ==
    /\ client # None
    /\ KeyRoom
    /\ WriteCall("new_transfer_address", <<name, passphrase>>,
                 new_transfer_address(client[1], St, name, passphrase))

New_multisig_transfer_address(name, passphrase, signer_keys, self_public_key, m, n) ==
    /\ client # None
    /\ WriteCall("new_multisig_transfer_address", <<name, passphrase, signer_keys, self_public_key, m, n>>,
                 new_multisig_transfer_address(client[1], St, name, passphrase, signer_keys, self_public_key, m, n))

Required_cosigners(name, passphrase, hash) ==
    /\ client # None
    /\ ReadCall("required_cosigners", <<name, passphrase, hash>>,
                required_cosigners(client[1], St, name, passphrase, hash))

Generate_proof(name, passphrase, address, signer_keys) ==
    /\ client # None
    /\ ReadCall("generate_proof", <<name, passphrase, address, signer_keys>>,
                DefaultWalletClient_generate_proof(client[1], St, name, passphrase, address,
                                                   signer_keys))

Balance(name, passphrase) ==
    /\ client # None
    /\ ReadCall("balance", <<name, passphrase>>,
                balance(client[1], St, index, name, passphrase))

History(name, passphrase) ==
    /\ client # None
    /\ ReadCall("history", <<name, passphrase>>,
                history(client[1], St, index, name, passphrase))

Unspent_transactions(name, passphrase) ==
    /\ client # None
    /\ ReadCall("unspent_transactions", <<name, passphrase>>,
                unspent_transactions(client[1], St, index, name, passphrase))

Output(input) ==
    /\ client # None
    /\ ReadCall("output", <<input>>, output(client[1], index, input))

Create_transaction(name, passphrase, outputs, return_address) ==
    /\ client # None
    /\ ReadCall("create_transaction", <<name, passphrase, outputs, return_address>>,
                create_transaction(client[1], St, index, name, passphrase, outputs,
                                   return_address))

Broadcast_transaction(tx_aux) ==
    /\ client # None
    /\ wpc = "idle"
    /\ wcall' = Call("broadcast_transaction", <<tx_aux>>)
    /\ wres' = broadcast_transaction(client[1], index, tx_aux).res
    /\ index' = broadcast_transaction(client[1], index, tx_aux).st
    /\ wpc' = "returned"
    /\ UNCHANGED <<builder, client, storeVars>>
    /\ UNCHANGED <<nodeVars, mock_enc_dec, req, resp, op, qpc, qreads, commits>>

Schnorr_signature(name, passphrase, message, public_key) ==
    /\ client # None
    /\ ReadCall("schnorr_signature", <<name, passphrase, message, public_key>>,
                schnorr_signature(client[1], St, name, passphrase, message, public_key))

New_multi_sig_session(name, passphrase, message, signer_public_keys, self_public_key) ==
    /\ client # None
    /\ SessionId(message, signer_public_keys, self_public_key) \notin DOMAIN session_store
    /\ WriteCall("new_multi_sig_session",
                 <<name, passphrase, message, signer_public_keys, self_public_key>>,
                 new_multi_sig_session(client[1], St, name, passphrase, message,
                                       signer_public_keys, self_public_key))

Nonce_commitment(session_id, passphrase) ==
    /\ client # None
    /\ ReadCall("nonce_commitment", <<session_id, passphrase>>,
                nonce_commitment(client[1], St, session_id, passphrase))

Add_nonce_commitment(session_id, passphrase, commitment, public_key) ==
    /\ client # None
    /\ WriteCall("add_nonce_commitment", <<session_id, passphrase, commitment, public_key>>,
                 add_nonce_commitment(client[1], St, session_id, passphrase, commitment,
                                      public_key))

Nonce(session_id, passphrase) ==
    /\ client # None
    /\ ReadCall("nonce", <<session_id, passphrase>>,
                nonce(client[1], St, session_id, passphrase))

Add_nonce(session_id, passphrase, revealed, public_key) ==
    /\ client # None
    /\ WriteCall("add_nonce", <<session_id, passphrase, revealed, public_key>>,
                 add_nonce(client[1], St, session_id, passphrase, revealed, public_key))

Partial_signature(session_id, passphrase) ==
    /\ client # None
    /\ WriteCall("partial_signature", <<session_id, passphrase>>,
                 partial_signature(client[1], St, session_id, passphrase))

Add_partial_signature(session_id, passphrase, partial, public_key) ==
    /\ client # None
    /\ WriteCall("add_partial_signature", <<session_id, passphrase, partial, public_key>>,
                 add_partial_signature(client[1], St, session_id, passphrase, partial,
                                       public_key))

Signature(session_id, passphrase) ==
    /\ client # None
    /\ ReadCall("signature", <<session_id, passphrase>>,
                signature(client[1], St, session_id, passphrase))

(* The index follows the chain: it learns of a transaction made elsewhere that
   pays an address, and its lookup of an address starts or stops failing *)
IndexedOutputs ==
    UNION {Range(index.details[a].unspent_transactions) : a \in DOMAIN index.details}

IndexedTransactions ==
    UNION {Range(index.details[a].transaction_history) : a \in DOMAIN index.details}

IndexReceives(address, value) ==
    /\ wpc = "idle"
    /\ client # None
    /\ client[1].index # UnauthorizedIndex
    /\ Cardinality(IndexedTransactions) < MaxIndexed
    /\ TxId(Tx(<<>>, <<TxOut(address, value)>>)) \notin IndexedTransactions
    /\ IndexDetails(index, address).balance + value <= MAX_COIN
    /\ index' = Index_apply(index, Tx(<<>>, <<TxOut(address, value)>>))
    /\ UNCHANGED <<builder, client, storeVars, wcall, wres, wpc>>
    /\ UNCHANGED <<nodeVars, mock_enc_dec, req, resp, op, qpc, qreads, commits>>

IndexFails(addresses) ==
    /\ wpc = "idle"
    /\ client # None
    /\ client[1].index # UnauthorizedIndex
    /\ index.failing # addresses
    /\ index' = [index EXCEPT !.failing = addresses]
    /\ UNCHANGED <<builder, client, storeVars, wcall, wres, wpc>>
    /\ UNCHANGED <<nodeVars, mock_enc_dec, req, resp, op, qpc, qreads, commits>>

(* the caller takes the Result *)
Return ==
    /\ wpc = "returned"
    /\ wpc' = "idle"
    /\ wcall' = NoCall
    /\ wres' = Ok(Unit)
    /\ UNCHANGED <<builder, client, storeVars, index>>
    /\ UNCHANGED <<nodeVars, mock_enc_dec, req, resp, op, qpc, qreads, commits>>

EmptyStore == [k \in {} |-> None]

WalletInit ==
    /\ builder = Some(DefaultWalletClientBuilder_default)
    /\ client = None
    /\ key_store = EmptyStore
    /\ wallet_store = EmptyStore
    /\ root_hash_store = EmptyStore
    /\ session_store = EmptyStore
    /\ index = [details |-> EmptyStore, failing |-> {}]
    /\ wcall = NoCall
    /\ wres = Ok(Unit)
    /\ wpc = "idle"

-----------------------------------------------------------------------------

Init ==
    /\ storage = [c \in Columns |-> [k \in {} |-> EmptyBytes]]
    /\ accounts = [k \in {} |-> EmptyBytes]
    /\ last_state = None
    /\ mock_enc_dec \in BOOLEAN
    /\ req = NoRequest
    /\ resp = ResponseQuery_new
    /\ op = "init"
    /\ qpc = "idle"
    /\ qreads = NoReads
    /\ commits = 0
    /\ WalletInit

UncommittedTxs == {n \in 1..NumTx : db_get(COL_BODIES, TxId(n)) = None}

DoCommit ==
    /\ last_state # None
    /\ \E txs \in SUBSET UncommittedTxs : \E witnessed \in SUBSET txs :
          \E nonces \in AccountUpdates(tip_nonces) : Commit(txs, witnessed, nonces)

DoQuery ==
    \E path \in RequestPaths, data \in RequestData :
        \E height \in IF path \in HeightPaths THEN RequestHeights ELSE {0},
           prove \in IF path \in HeightPaths THEN BOOLEAN ELSE {FALSE} :
            Query(RequestQuery(path, data, height, prove))

Next == InitChain \/ DoCommit \/ DoQuery \/ Deliver

Spec == Init /\ [][Next]_vars

DoSnapBegin ==
    \E data \in RequestData, height \in RequestHeights :
        SnapBegin(RequestQuery(P_store, data, height, TRUE))

NextSnap ==
    \/ InitChain
    \/ DoCommit
    \/ DoSnapBegin
    \/ SnapReadBody
    \/ SnapReadWitness
    \/ SnapReadState
    \/ SnapReadAppHash
    \/ SnapReadTree
    \/ Deliver

SpecSnap == Init /\ [][NextSnap]_vars


-----------------------------------------------------------------------------
(* Properties of the query handler.  The expected values are written out
   from the stored state, not through the operators of the handler. *)

Answered == qpc = "returned" /\ ~resp.aborted

Stored(column, key) == key \in DOMAIN storage[column]

StoreProve == qpc = "returned" /\ req.path = P_store /\ req.prove

TipHeight == IF last_state = None THEN 0 ELSE last_state[1].last_block_height

PolicyHeight == IF req.height = 0 \/ req.height > TipHeight THEN TipHeight ELSE req.height

PolicyTreeStored ==
    /\ Stored(COL_APP_STATES, encode_var_vec(PolicyHeight))
    /\ Stored(COL_MERKLE_PROOFS, storage[COL_APP_STATES][encode_var_vec(PolicyHeight)])

(* the leaves of the tree stored under the app-hash of the policy's height *)
PolicyLeaves ==
    storage[COL_MERKLE_PROOFS][storage[COL_APP_STATES][encode_var_vec(PolicyHeight)]].val

TipLeaves ==
    storage[COL_MERKLE_PROOFS][storage[COL_APP_STATES][encode_var_vec(TipHeight)]].val

IsLeaf(leaves, txid) == \E i \in 1..Len(leaves) : TxId(leaves[i]) = txid

WitnessOp ==
    [field_type |-> "witness", key |-> TXID_HASH_ID,
     data |-> txid_hash(storage[COL_WITNESS][req.data])]

TransactionOp(leaves) ==
    [field_type |-> "transaction", key |-> root_hash(MerkleTree_new(leaves)),
     data |-> MerkleProof_encode(generate_proof(MerkleTree_new(leaves), req.data)[1])]

(* C1: a store query with prove set, for a txid whose body and witness are
   stored, answers code 0 with the stored body and a proof that ends with the
   witness op: [transaction op, witness op] when the txid is a leaf of the tree
   stored under the app-hash of the chosen height, [witness op] when it is not *)
C1_ProofOps ==
    (StoreProve /\ Stored(COL_BODIES, req.data) /\ Stored(COL_WITNESS, req.data)) =>
        /\ ~resp.aborted =>
            /\ resp.code = 0
            /\ resp.value = storage[COL_BODIES][req.data]
            /\ Len(resp.proof) >= 1
            /\ resp.proof[Len(resp.proof)] = WitnessOp
        /\ (PolicyTreeStored /\ req.data.len = HASH_SIZE_256) =>
            /\ ~resp.aborted
            /\ IsLeaf(PolicyLeaves, req.data) =>
                    resp.proof = <<TransactionOp(PolicyLeaves), WitnessOp>>
            /\ ~IsLeaf(PolicyLeaves, req.data) => resp.proof = <<WitnessOp>>

C1_Witness ==
    /\ StoreProve /\ ~resp.aborted
    /\ Stored(COL_WITNESS, req.data)
    /\ Len(resp.proof) = 2
    /\ resp.proof[1].field_type = "transaction"

(* C2: query_handler returns a ResponseQuery for every request in every
   reachable state; it never panics *)
C2_NeverAborts == qpc = "returned" => ~resp.aborted

(* C3: the tree a proof is built from is the one stored under the app-hash of
   the tip height when the request's height is 0 or beyond the tip, and of
   exactly the requested height otherwise *)
C3_HeightPolicy ==
    (StoreProve /\ Stored(COL_BODIES, req.data) /\ Stored(COL_WITNESS, req.data)
        /\ req.data.len = HASH_SIZE_256) =>
        IF PolicyTreeStored
        THEN /\ ~resp.aborted
             /\ IsLeaf(PolicyLeaves, req.data) =>
                    /\ Len(resp.proof) = 2
                    /\ resp.proof[1].key = Bytes(HASH_SIZE_256, "merkle_root", PolicyLeaves)
             /\ ~IsLeaf(PolicyLeaves, req.data) => Len(resp.proof) = 1
        ELSE resp.aborted

C3_Witness ==
    /\ StoreProve /\ ~resp.aborted
    /\ req.height > 0 /\ req.height < TipHeight
    /\ Len(resp.proof) = 2
    /\ resp.proof[1].key = Bytes(HASH_SIZE_256, "merkle_root", PolicyLeaves)
    /\ ~IsLeaf(TipLeaves, req.data)

(* C4: a store query with prove set for a txid whose body is stored and whose
   witness is not answers code 2, log "proof error: witness not found", and
   carries no proof *)
C4_WitnessNotFound ==
    (StoreProve /\ Stored(COL_BODIES, req.data) /\ ~Stored(COL_WITNESS, req.data)) =>
        /\ ~resp.aborted
        /\ resp.code = 2
        /\ resp.log = <<"proof error: witness not found">>
        /\ resp.proof = <<>>

C4_Witness ==
    /\ StoreProve
    /\ Stored(COL_BODIES, req.data) /\ ~Stored(COL_WITNESS, req.data)
    /\ resp.code = 2

(* C6: every response has a code among 0, 1, 2, 3, and a response with a
   non-zero code has a non-empty log whose messages are non-empty *)
C6_CodesAndLog ==
    Answered =>
        /\ resp.code \in {0, 1, 2, 3}
        /\ resp.code # 0 => (resp.log # <<>> /\ \A i \in 1..Len(resp.log) : resp.log[i] # "")

C6_Witness == Answered /\ resp.code # 0 /\ resp.log # <<>>


LookupColumn ==
    CASE req.path = P_store -> COL_BODIES
      [] req.path = P_meta -> COL_TX_META
      [] req.path = P_witness -> COL_WITNESS
      [] req.path = P_merkle -> COL_MERKLE_PROOFS

LookupPath == req.path \in {P_store, P_meta, P_witness, P_merkle}

KnownPath ==
    \/ req.path \in {P_store, P_meta, P_witness, P_merkle, P_account,
                     P_mockencrypt, P_mockdecrypt}
    \/ starts_with(req.path, P_slash_p2p)
    \/ starts_with(req.path, P_p2p)

MissLog == IF req.path = P_merkle THEN "app state not found" ELSE "tx not found"

MissingLookupsAnswered ==
    /\ (LookupPath /\ ~Stored(LookupColumn, req.data)) =>
            (resp.code = 1 /\ resp.log = <<MissLog>>)
    /\ ~KnownPath => (resp.code = 1 /\ resp.log = <<"invalid path">>)

(* C7 as stated: a store, meta, witness or merkle query answers code 1 with
   its log when the key is absent, an unknown path answers code 1 "invalid
   path", and when the key is present the response has code 0 and the stored
   bytes as value *)
C7_Original ==
    Answered =>
        /\ MissingLookupsAnswered
        /\ (LookupPath /\ Stored(LookupColumn, req.data)) =>
                (resp.code = 0 /\ resp.value = storage[LookupColumn][req.data])

(* C7 amended: as C7, but the code 0 of a present key holds for meta, witness
   and merkle queries and for store queries without prove; with prove set a
   store query falls under the rules of the proof *)
C7_MissingLookups ==
    Answered =>
        /\ MissingLookupsAnswered
        /\ (LookupPath /\ Stored(LookupColumn, req.data)
                /\ ~(req.path = P_store /\ req.prove)) =>
                (resp.code = 0 /\ resp.log = <<>>
                    /\ resp.value = storage[LookupColumn][req.data])

C7_Witness ==
    /\ Answered
    /\ req.path = P_merkle
    /\ storage[COL_MERKLE_PROOFS] # <<>>
    /\ ~Stored(COL_MERKLE_PROOFS, req.data)
    /\ resp.log = <<"app state not found">>

AccountQuery == Answered /\ req.path = P_account

WellFormedAddress == req.data.len = REDEEM_ADDRESS_BYTES

TipAccounts == accounts[last_state[1].last_account_root_hash]

(* C8: an account query answers code 3 for every data on an uninitialised
   node; on an initialised node a well-formed address missing from the trie
   answers code 1, and code 3 is answered exactly for a malformed address *)
C8_AccountErrors ==
    AccountQuery =>
        /\ last_state = None => resp.code = 3
        /\ last_state # None =>
            /\ (WellFormedAddress /\ req.data \notin DOMAIN TipAccounts) => resp.code = 1
            /\ resp.code = 3 <=> ~WellFormedAddress

C8_Witness ==
    /\ AccountQuery
    /\ last_state = None
    /\ WellFormedAddress
    /\ resp.code = 3

(* C9: an account query with a valid staking address answers the encoded
   StakedState found under the root of the tip, last_account_root_hash,
   whatever the height and prove of the request *)
C9_AccountAtTip ==
    (AccountQuery /\ last_state # None /\ WellFormedAddress
        /\ req.data \in DOMAIN TipAccounts) =>
        /\ resp.code = 0
        /\ resp.value = Blob("StakedState", <<req.data.val[1], TipAccounts[req.data].nonce>>)

C9_Witness ==
    /\ AccountQuery /\ last_state # None
    /\ req.height = 1 /\ req.prove /\ TipHeight > 1
    /\ req.data \in DOMAIN TipAccounts
    /\ TipAccounts[req.data].nonce > 0
    /\ resp.value = Blob("StakedState", <<req.data.val[1], TipAccounts[req.data].nonce>>)

(* C10: a query leaves the store's columns, the account trie and last_state
   as they were, whatever its outcome; they change only in the commit path *)
C10_QueryNeverWrites ==
    [][/\ (qpc = "idle" /\ qpc' # "idle") => UNCHANGED nodeVars
       /\ nodeVars' # nodeVars => op' \in {"init_chain", "commit"}]_vars

C10_Witness ==
    /\ qpc = "returned"
    /\ storage[COL_BODIES] # <<>>
    /\ ~resp.aborted
    /\ resp.code # 0


(* C5: the body, the witness, the tip height, the app-hash and the tree that a
   store query with prove set uses are all read from one committed state: no
   write batch lands between two of its reads, and its response is the one the
   handler gives on that state as a whole *)
C5_OneSnapshot ==
    /\ \A i, j \in 1..Len(qreads.at) : qreads.at[i] = qreads.at[j]
    /\ (qpc = "returned" /\ op # "query") =>
            (qreads.at # <<>> /\ qreads.at[1] = commits /\ resp = query_handler(req))

C5_Witness ==
    /\ qpc = "returned"
    /\ op = "snap_tree"
    /\ Len(qreads.at) = 5
    /\ commits > 2
    /\ Len(resp.proof) = 2
    /\ req.height = 1


(* C11: a query on a peer-filter path is answered with success: code 0, an
   empty value, an empty log and no proof, whatever its data, height and prove
   are and whether or not the node has been initialised *)
PeerFilterPath == req.path \in {P_filter_addr, P_filter_id}

C11_PeerFilterAccepted ==
    (qpc = "returned" /\ op = "query" /\ PeerFilterPath) =>
        /\ ~resp.aborted
        /\ resp.code = 0
        /\ resp.value = EmptyBytes
        /\ resp.log = <<>>
        /\ resp.proof = <<>>

C11_Witness ==
    /\ qpc = "returned"
    /\ op = "query"
    /\ req.path = P_filter_addr
    /\ last_state = None
    /\ req.prove
    /\ req.height < 0
    /\ req.data = Address(1)
    /\ resp.code = 0


-----------------------------------------------------------------------------
(* The wallet client's specification *)

NextWallet ==
    \/ With_wallet
    \/ With_transaction_read
    \/ With_transaction_write(ZeroFeeAlgorithm)
    \/ Build
    \/ Wallets
    \/ \E name \in WalletNames, passphrase \in Passphrases :
          \/ New_wallet(name, passphrase)
          \/ View_key(name, passphrase)
          \/ Public_keys(name, passphrase)
          \/ Root_hashes(name, passphrase)
          \/ Staking_addresses(name, passphrase)
          \/ Transfer_addresses(name, passphrase)
          \/ New_public_key(name, passphrase)
          \/ New_staking_address(name, passphrase)
          \/ New_transfer_address(name, passphrase)
          \/ Balance(name, passphrase)
          \/ History(name, passphrase)
          \/ Unspent_transactions(name, passphrase)
          \/ Create_transaction(name, passphrase, <<>>, OrTree(MultiSigAddress_root_hash({1}, 1)))
          \/ \E k \in PublicKeys :
                Find_public_key(name, passphrase, RedeemAddress_from(k))
          \/ \E hash \in RootHashes :
                \/ Find_root_hash(name, passphrase, OrTree(hash))
                \/ Required_cosigners(name, passphrase, hash)
          \/ \E i \in MultiSigInputs :
                New_multisig_transfer_address(name, passphrase, i.signer_keys,
                                              i.self_public_key, i.m, i.n)
    \/ \E passphrase \in Passphrases, k \in PublicKeys : Private_key(passphrase, k)
    \/ Output(TxoPointer(TxId(Tx(<<>>, <<>>)), 0))
    \/ Broadcast_transaction(Tx(<<>>, <<>>))
    \/ Return

InitWallet == Init /\ ~mock_enc_dec

SpecWallet == InitWallet /\ [][NextWallet]_vars

(* The wallet client with an index that follows the chain: wallets under one
   passphrase, their addresses, and the calls that ask the index *)
WalletAddresses ==
    {OrTree(hash) : hash \in UNION {wallet_store[name].value.root_hashes
                                        : name \in DOMAIN wallet_store}}

(* an address of somebody else's wallet *)
OtherAddress == OrTree(MultiSigAddress_root_hash({1}, 1))

CoinValues == {30, MAX_COIN}

RequestedValues == {30, 31}

FundsPassphrase == "passphrase"

CreatedTransactions ==
    IF client = None THEN {}
    ELSE {r.val : r \in {x \in {create_transaction(client[1], St, index, name,
                                                    FundsPassphrase, <<TxOut(to, value)>>, to)
                                   : name \in WalletNames,
                                     to \in WalletAddresses \cup {OtherAddress},
                                     value \in RequestedValues} : x.ok}}

NextFunds ==
    \/ With_wallet
    \/ With_transaction_read
    \/ \E fee_algorithm \in FeeAlgorithms : With_transaction_write(fee_algorithm)
    \/ Build
    \/ \E name \in WalletNames :
          \/ New_wallet(name, FundsPassphrase)
          \/ New_transfer_address(name, FundsPassphrase)
          \/ New_multisig_transfer_address(name, FundsPassphrase, SetToSeq(SignerKeys),
                                           FirstSigner, 2, NumSigners)
          \/ Balance(name, FundsPassphrase)
          \/ Unspent_transactions(name, FundsPassphrase)
          \/ \E to \in WalletAddresses \cup {OtherAddress}, value \in RequestedValues :
                Create_transaction(name, FundsPassphrase, <<TxOut(to, value)>>, to)
    \/ /\ Cardinality(IndexedTransactions) < MaxIndexed
       /\ \E tx_aux \in CreatedTransactions : Broadcast_transaction(tx_aux)
    \/ \E address \in WalletAddresses, value \in CoinValues : IndexReceives(address, value)
    \/ \E address \in WalletAddresses : IndexFails({address})
    \/ IndexFails({})
    \/ Return

SpecFunds == InitWallet /\ [][NextFunds]_vars

-----------------------------------------------------------------------------
(* Properties of the wallet client *)

Returned(name) == wpc = "returned" /\ wcall.op = name

(* C12: build() returns InvalidInput whenever the transaction builder is set
   without the index or the index is set without the wallet storage, it
   succeeds for storage only, storage + index and storage + index + write, and
   no client it returns has a transaction builder without an index *)
C12_WriteImpliesIndex ==
    /\ Returned("build") =>
          LET b == wcall.args[1]
          IN  /\ (b.transaction_builder_set /\ ~b.index_set) => wres = Err("InvalidInput")
              /\ (b.index_set /\ ~b.storage_set) => wres = Err("InvalidInput")
              /\ (b.storage_set /\ (b.transaction_builder_set => b.index_set)) =>
                    (wres.ok /\ client = Some(wres.val))
              /\ ~wres.ok => client = None
    /\ client # None =>
          (client[1].transaction_builder # UnauthorizedTransactionBuilder
              => client[1].index # UnauthorizedIndex)

C12_Witness ==
    /\ Returned("build")
    /\ wcall.args[1].transaction_builder_set
    /\ wcall.args[1].storage_set
    /\ ~wcall.args[1].index_set
    /\ wres = Err("InvalidInput")
    /\ client = None


(* the client that was built, by its components *)
HasStorage == client # None /\ client[1].storage # UnauthorizedStorage
HasIndex == client # None /\ client[1].index # UnauthorizedIndex
HasWrite == client # None /\ client[1].transaction_builder # UnauthorizedTransactionBuilder

(* the call that has returned names a wallet that exists, with the passphrase
   it was created with / with another one *)
NamesWallet == Len(wcall.args) >= 2 /\ wcall.args[1] \in DOMAIN wallet_store
RightPassphrase == NamesWallet /\ wallet_store[wcall.args[1]].passphrase = wcall.args[2]
WrongPassphrase == NamesWallet /\ wallet_store[wcall.args[1]].passphrase # wcall.args[2]

(* C13: an operation that needs a capability the client was not built with
   fails with PermissionDenied: every wallet operation on a client built with
   nothing configured, and balance, history, output and broadcast_transaction
   on a storage-only client (for a wallet that exists, read with its
   passphrase) *)
C13_PermissionDenied ==
    /\ (wpc = "returned" /\ client # None /\ ~HasStorage /\ ~HasIndex /\ ~HasWrite
          /\ wcall.op \in {"wallets", "new_wallet", "public_keys", "private_key",
                            "new_public_key", "new_staking_address", "balance", "history",
                            "unspent_transactions", "output", "create_transaction"})
            => wres = Err("PermissionDenied")
    /\ (wpc = "returned" /\ HasStorage /\ ~HasIndex /\ ~HasWrite
          /\ \/ wcall.op \in {"output", "broadcast_transaction"}
             \/ wcall.op \in {"balance", "history"} /\ RightPassphrase)
            => wres = Err("PermissionDenied")

(* C14: every read of an existing wallet with a passphrase other than the one
   it was created with fails with PermissionDenied, and with the passphrase it
   was created with it succeeds *)
WalletReads == {"view_key", "public_keys", "root_hashes", "staking_addresses",
                "transfer_addresses", "find_public_key", "find_root_hash"}

C14_WrongPassphraseDenied ==
    (wpc = "returned" /\ wcall.op \in WalletReads /\ HasStorage) =>
        /\ WrongPassphrase => wres = Err("PermissionDenied")
        /\ RightPassphrase => wres.ok

C14_Witness ==
    /\ Returned("transfer_addresses")
    /\ WrongPassphrase
    /\ wallet_store[wcall.args[1]].value.root_hashes # {}
    /\ wres = Err("PermissionDenied")

(* C15: transfer_addresses of a wallet is empty after new_wallet, a
   successful new_transfer_address or new_multisig_transfer_address adds the
   OrTree address it returns and nothing else, no other call changes the
   list, every listed address has its root hash in the wallet, and wallets()
   lists each created name once.  The lists are functions of the storage, so
   they are compared over the steps that change it. *)
TransferAddressesOf(name) ==
    transfer_addresses(client[1], St, name, wallet_store[name].passphrase)

FoundRootHashesOf(name) ==
    {hash \in RootHashes :
        find_root_hash(client[1], St, name, wallet_store[name].passphrase, OrTree(hash))
            = Ok(Some(hash))}

Called(name) == wpc = "idle" /\ wpc' = "returned" /\ wcall'.op = name

AddressCalls == {"new_transfer_address", "new_multisig_transfer_address"}

C15_TransferAddresses ==
    [][(HasStorage /\ storeVars' # storeVars) =>
        /\ \A name \in DOMAIN wallet_store' :
              LET after == TransferAddressesOf(name)'
                  adds == /\ wpc = "idle" /\ wpc' = "returned"
                          /\ wcall'.op \in AddressCalls
                          /\ wcall'.args[1] = name
                          /\ wres'.ok
              IN  /\ after.ok
                  /\ Len(after.val) = Cardinality(Range(after.val))
                  /\ \A i \in DOMAIN after.val :
                        /\ after.val[i].type = "OrTree"
                        /\ after.val[i].root_hash \in FoundRootHashesOf(name)'
                  /\ name \notin DOMAIN wallet_store =>
                        (Called("new_wallet") /\ wres'.ok /\ wcall'.args[1] = name
                         /\ after.val = <<>>)
                  /\ (name \in DOMAIN wallet_store /\ adds) =>
                        Range(after.val) = Range(TransferAddressesOf(name).val) \cup {wres'.val}
                  /\ (name \in DOMAIN wallet_store /\ ~adds) =>
                        after = TransferAddressesOf(name)
        /\ LET names == wallets(client[1], St)'
           IN  /\ names.ok
               /\ Range(names.val) = DOMAIN wallet_store'
               /\ Len(names.val) = Cardinality(DOMAIN wallet_store')
        /\ DOMAIN wallet_store \subseteq DOMAIN wallet_store'
        /\ (DOMAIN wallet_store' # DOMAIN wallet_store) => (Called("new_wallet") /\ wres'.ok)
      ]_vars

C15_Witness ==
    /\ Returned("new_multisig_transfer_address")
    /\ wres.ok
    /\ Cardinality(DOMAIN wallet_store) = 2
    /\ Len(TransferAddressesOf(wcall.args[1]).val) = 2
    /\ wres.val \in Range(TransferAddressesOf(wcall.args[1]).val)

(* C16: a read or an add that names a wallet which was never created fails
   with WalletNotFound on a client with wallet storage, and wallets() lists
   the same names after the call as before it *)
NamedCalls == WalletReads \cup AddressCalls \cup
              {"new_public_key", "new_staking_address", "required_cosigners",
               "balance", "history", "unspent_transactions", "create_transaction"}

C16_WalletNotFound ==
    [][(HasStorage /\ wpc = "idle" /\ wpc' = "returned" /\ wcall'.op \in NamedCalls
        /\ wcall'.args[1] \notin DOMAIN wallet_store)
          => /\ wres' = Err("WalletNotFound")
             /\ wallets(client[1], St)' = wallets(client[1], St)]_vars

C16_Witness ==
    /\ Returned("new_public_key")
    /\ HasStorage
    /\ wcall.args[1] \notin DOMAIN wallet_store
    /\ wallet_store # <<>>
    /\ wres = Err("WalletNotFound")
    /\ key_store # <<>>

(* C19: required_cosigners of a root hash of the wallet, asked with the
   wallet's passphrase, returns the m the address was created with *)
C19_RequiredCosigners ==
    (Returned("required_cosigners") /\ RightPassphrase
     /\ wcall.args[3] \in wallet_store[wcall.args[1]].value.root_hashes)
        => wres = Ok(wcall.args[3].val[2])

(* C17: balance(name, p) is the checked sum of the balances the index reports
   for the wallet's transfer addresses (0 when it has none); a sum over
   MAX_COIN fails with BalanceAdditionError, and when the index fails for one
   of the addresses the call fails with the index's error *)
AddressesOfWallet(name) == {OrTree(hash) : hash \in wallet_store[name].value.root_hashes}

RECURSIVE ReportedBalance(_)
ReportedBalance(addresses) ==
    IF addresses = {} THEN 0
    ELSE LET a == CHOOSE x \in addresses : TRUE
         IN  IndexDetails(index, a).balance + ReportedBalance(addresses \ {a})

C17_BalanceCheckedSum ==
    (Returned("balance") /\ HasStorage /\ HasIndex /\ RightPassphrase) =>
        LET addresses == AddressesOfWallet(wcall.args[1])
        IN  IF addresses \cap index.failing # {} THEN wres = Err("StorageError")
            ELSE IF ReportedBalance(addresses) > MAX_COIN
                 THEN wres = Err("BalanceAdditionError")
                 ELSE wres = Ok(ReportedBalance(addresses))

C17_Witness ==
    /\ Returned("balance")
    /\ RightPassphrase
    /\ Cardinality(AddressesOfWallet(wcall.args[1])) = 2
    /\ \A a \in AddressesOfWallet(wcall.args[1]) : IndexDetails(index, a).balance > 0
    /\ ReportedBalance(AddressesOfWallet(wcall.args[1])) > MAX_COIN
    /\ wres = Err("BalanceAdditionError")

(* C18: create_transaction fails with InsufficientBalance whenever the
   wallet's unspent outputs, as the index reports them, are worth less than
   the requested outputs plus the fee, and succeeds when they cover them *)
RECURSIVE UnspentTotal(_)
UnspentTotal(addresses) ==
    IF addresses = {} THEN 0
    ELSE LET a == CHOOSE x \in addresses : TRUE
             unspent == IndexDetails(index, a).unspent_transactions
         IN  SumValues([k \in DOMAIN unspent |-> unspent[k][2]])
             + UnspentTotal(addresses \ {a})

C18_InsufficientBalance ==
    (Returned("create_transaction") /\ HasStorage /\ HasIndex /\ HasWrite /\ RightPassphrase
     /\ AddressesOfWallet(wcall.args[1]) \cap index.failing = {}
     /\ UnspentTotal(AddressesOfWallet(wcall.args[1])) <= MAX_COIN) =>
        LET total == UnspentTotal(AddressesOfWallet(wcall.args[1]))
            needed == SumValues(wcall.args[3])
                      + calculate_fee(client[1].transaction_builder[2])
        IN  /\ total < needed => wres = Err("InsufficientBalance")
            /\ total >= needed =>
                  /\ wres.ok
                  /\ SumValues(wres.val.outputs)
                     + calculate_fee(client[1].transaction_builder[2])
                        = SumValues([k \in DOMAIN wres.val.inputs |->
                                        Index_output(client[1], index, wres.val.inputs[k]).val])

C18_Witness ==
    /\ Returned("create_transaction")
    /\ RightPassphrase
    /\ client[1].transaction_builder = DefaultTransactionBuilder(ZeroFeeAlgorithm)
    /\ UnspentTotal(AddressesOfWallet(wcall.args[1])) = 30
    /\ SumValues(wcall.args[3]) = 31
    /\ wres = Err("InsufficientBalance")

C18_WitnessSpent ==
    /\ Returned("create_transaction")
    /\ RightPassphrase
    /\ UnspentTotal(AddressesOfWallet(wcall.args[1])) = 0
    /\ \E a \in AddressesOfWallet(wcall.args[1]) :
          Len(IndexDetails(index, a).transaction_history) = 2
    /\ wres = Err("InsufficientBalance")

-----------------------------------------------------------------------------
(* The multi-signature sessions of one wallet: a session for each of the first
   two keys of the key store, all keys as signers, and contributions that
   are what a signer would send or what another signer would send *)
SessionMessage == TxId(Tx(<<>>, <<>>))

SessionSigners == SetToSeq(PublicKeys)

SessionSelves == {k \in PublicKeys : k <= 2}

SessionIds == {SessionId(SessionMessage, SessionSigners, k) : k \in SessionSelves}

(* the partial signature a signer sends when its own session holds every
   signer's own nonce *)
SentPartialSignature(sender) ==
    PartialSignatureOf(sender, NonceOf(sender, SessionMessage),
                       Challenge(PublicKeys,
                                 {NonceOf(k, SessionMessage) : k \in PublicKeys},
                                 SessionMessage))

(* the address the sessions sign for: all keys of the key store and one
   outside co-signer, of whom all but one must sign *)
SessionAddressSigners == SetToSeq(PublicKeys \cup {FirstSigner})

SessionAddress == OrTree(MultiSigAddress_root_hash(Range(SessionAddressSigners), MaxKeys))

SessionName == "wallet_1"

OtherPassphrase == "passphrase_2"

SessionPassphrase == "passphrase"

NextMultiSig ==
    \/ With_wallet
    \/ Build
    \/ New_wallet(SessionName, SessionPassphrase)
    \/ New_public_key(SessionName, SessionPassphrase)
    \/ New_multisig_transfer_address(SessionName, SessionPassphrase, SessionAddressSigners,
                                     1, MaxKeys, MaxKeys + 1)
    \/ Generate_proof(SessionName, SessionPassphrase, SessionAddress, SessionSigners)
    \/ \E self_public_key \in SessionSelves :
          New_multi_sig_session(SessionName, SessionPassphrase, SessionMessage,
                                SessionSigners, self_public_key)
    \/ \E session_id \in SessionIds :
          \/ Nonce_commitment(session_id, SessionPassphrase)
          \/ Nonce(session_id, SessionPassphrase)
          \/ Partial_signature(session_id, SessionPassphrase)
          \/ Signature(session_id, SessionPassphrase)
          \/ Partial_signature(session_id, OtherPassphrase)
          \/ \E public_key \in PublicKeys : \E sender \in {public_key, 1} :
                \/ Add_nonce_commitment(session_id, SessionPassphrase,
                       NonceCommitment(NonceOf(sender, SessionMessage)), public_key)
                \/ Add_nonce(session_id, SessionPassphrase,
                             NonceOf(sender, SessionMessage), public_key)
                \/ Add_partial_signature(session_id, SessionPassphrase,
                       SentPartialSignature(sender), public_key)
    \/ Return

SpecMultiSig == InitWallet /\ [][NextMultiSig]_vars

(* C20: in a session, nonce is refused until every signer's nonce commitment
   is stored, partial_signature until every signer's nonce is stored and
   signature until every signer's partial signature is stored, and each is
   answered once they are; add_nonce before all commitments fails with
   NonceNotReady and add_partial_signature before all nonces fails with
   PartialNotReady, and both leave the session as it was *)
SessionOps == {"nonce", "add_nonce", "partial_signature", "add_partial_signature",
               "signature"}

C20_RoundOrdering ==
    [][(HasStorage /\ wpc = "idle" /\ wpc' = "returned" /\ wcall'.op \in SessionOps
        /\ wcall'.args[1] \in DOMAIN session_store
        /\ session_store[wcall'.args[1]].passphrase = wcall'.args[2]) =>
          LET session == session_store[wcall'.args[1]].value
          IN  /\ wcall'.op = "nonce" => (wres'.ok <=> AllCommitments(session))
              /\ wcall'.op = "partial_signature" => (wres'.ok <=> AllNonces(session))
              /\ wcall'.op = "signature" => (wres'.ok <=> AllPartials(session))
              /\ (wcall'.op = "add_nonce" /\ ~AllCommitments(session)) =>
                    wres' = Err("NonceNotReady")
              /\ (wcall'.op = "add_partial_signature" /\ ~AllNonces(session)) =>
                    wres' = Err("PartialNotReady")
              /\ (~wres'.ok /\ wres'.kind \in {"NonceNotReady", "PartialNotReady"}) =>
                    storeVars' = storeVars
      ]_vars

C20_Witness ==
    /\ Returned("add_nonce")
    /\ wcall.args[1] \in DOMAIN session_store
    /\ ~AllCommitments(session_store[wcall.args[1]].value)
    /\ Cardinality(DOMAIN session_store) = 2
    /\ \E id \in DOMAIN session_store : AllPartials(session_store[id].value)
    /\ wres = Err("NonceNotReady")

(* C21: signature of a session that holds every signer's commitment, nonce
   and partial signature succeeds and verifies against the aggregated key of
   the signers and the session message, and with the proof that
   generate_proof gives for these signers it verifies against the m-of-n
   address *)
CompleteSessions ==
    {id \in DOMAIN session_store : AllPartials(session_store[id].value)}

C21_SignatureVerifies ==
    /\ (Returned("signature") /\ HasStorage /\ wcall.args[1] \in CompleteSessions
        /\ session_store[wcall.args[1]].passphrase = wcall.args[2]) =>
          /\ wres.ok
          /\ SchnorrSignature_verify(wres.val,
                                     DOMAIN session_store[wcall.args[1]].value.signers,
                                     session_store[wcall.args[1]].value.message)
    /\ (Returned("generate_proof") /\ wres.ok) =>
          \A id \in CompleteSessions :
              (DOMAIN session_store[id].value.signers = Range(wcall.args[4])) =>
                  LET sig == signature(client[1], St, id, wcall.args[2])
                  IN  /\ sig.ok
                      /\ verify_tx_address(TreeSig(sig.val, wres.val),
                                           session_store[id].value.message, wcall.args[3])

C21_Witness ==
    /\ Returned("generate_proof")
    /\ wres.ok
    /\ Cardinality(CompleteSessions) = 2
    /\ \A id \in CompleteSessions :
          DOMAIN session_store[id].value.signers = Range(wcall.args[4])

(* C22: in a session whose round is open, sending again the nonce
   commitment, nonce or partial signature that a signer has already sent is
   answered Ok and leaves the session as it was, and sending another one for
   that signer fails and ends the session *)
AddOps == {"add_nonce_commitment", "add_nonce", "add_partial_signature"}

SentBefore(session, name, public_key) ==
    IF name = "add_nonce_commitment" THEN session.signers[public_key].nonce_commitment
    ELSE IF name = "add_nonce"
    THEN (IF AllCommitments(session) THEN session.signers[public_key].nonce ELSE None)
    ELSE (IF AllNonces(session) THEN session.signers[public_key].partial_signature ELSE None)

C22_Resubmission ==
    [][(HasStorage /\ wpc = "idle" /\ wpc' = "returned" /\ wcall'.op \in AddOps
        /\ wcall'.args[1] \in DOMAIN session_store
        /\ session_store[wcall'.args[1]].passphrase = wcall'.args[2]
        /\ wcall'.args[4] \in DOMAIN session_store[wcall'.args[1]].value.signers
        /\ SentBefore(session_store[wcall'.args[1]].value, wcall'.op, wcall'.args[4]) # None) =>
          IF SentBefore(session_store[wcall'.args[1]].value, wcall'.op, wcall'.args[4])
                = Some(wcall'.args[3])
          THEN wres' = Ok(Unit) /\ storeVars' = storeVars
          ELSE ~wres'.ok /\ wcall'.args[1] \notin DOMAIN session_store'
      ]_vars

C22_Witness ==
    /\ Returned("add_nonce_commitment")
    /\ ~wres.ok
    /\ wcall.args[1] \notin DOMAIN session_store
    /\ Cardinality(DOMAIN session_store) = 1
    /\ \E id \in DOMAIN session_store :
          /\ wcall.args[4] \in DOMAIN session_store[id].value.signers
          /\ wcall.args[4] # session_store[id].value.self_public_key
          /\ session_store[id].value.signers[wcall.args[4]].nonce_commitment
                \notin {None, Some(wcall.args[3])}

(* C23: the round a session is in, by what it holds *)
SessionRound(session) ==
    IF AllPartials(session) THEN 3
    ELSE IF AllNonces(session) THEN 2
    ELSE IF AllCommitments(session) THEN 1
    ELSE 0

AbortKinds == {"InvalidInput", "InvalidNonce", "InvalidSignature"}

FailedCall == wpc = "idle" /\ wpc' = "returned" /\ ~wres'.ok

(* C23 as stated: a session never skips a round and never goes back, and a
   call that fails leaves every session in the state it had *)
C23_Original ==
    [][/\ \A id \in DOMAIN session_store :
             /\ id \in DOMAIN session_store'
             /\ SessionRound(session_store'[id].value) - SessionRound(session_store[id].value)
                   \in {0, 1}
       /\ FailedCall => session_store' = session_store
      ]_vars

(* C23, amended: while a session exists it never skips a round and never
   goes back; a call that is refused for any reason other than the material
   it brings leaves every session as it was, and a session ends only by a
   call that fails on its material *)
C23_ForwardOnly ==
    [][/\ \A id \in DOMAIN session_store :
             /\ id \in DOMAIN session_store' =>
                   SessionRound(session_store'[id].value)
                      - SessionRound(session_store[id].value) \in {0, 1}
             /\ id \notin DOMAIN session_store' =>
                   (FailedCall /\ wres'.kind \in AbortKinds /\ wcall'.op \in AddOps
                    /\ wcall'.args[1] = id)
       /\ (FailedCall /\ wres'.kind \notin AbortKinds) => session_store' = session_store
      ]_vars

C23_Witness ==
    /\ Returned("partial_signature")
    /\ wres = Err("PermissionDenied")
    /\ wcall.args[1] \in DOMAIN session_store
    /\ SessionRound(session_store[wcall.args[1]].value) = 2
    /\ \E id \in DOMAIN session_store : SessionRound(session_store[id].value) = 3

-----------------------------------------------------------------------------
(* The balance changes of transactions: added to a coin, and written and
   read back *)
CoinAmounts == {0, 1, 30, 40, 70, MAX_COIN - 1, MAX_COIN}

BlockTimes ==
    {DateTime(year, 11, 6, 13, 5, second, nano) :
        year \in {1970, 2019}, second \in {0, 59},
        nano \in {0, 1, 1000, 120000000, 123456789, 999999999}}
    \cup {DateTime(2016, 12, 31, 23, 59, 59, 1000000000 + nano) : nano \in {0, 500000}}

BlockHeights == {0, 1, 171}

TransactionChanges ==
    {TransactionChange(TxId(Tx(<<>>, <<>>)), OtherAddress, balance_change, block_height,
                       block_time) :
        balance_change \in {Incoming(30), Outgoing(30)}, block_height \in BlockHeights,
        block_time \in BlockTimes}

CoinChanges ==
    {TransactionChange(TxId(Tx(<<>>, <<>>)), OtherAddress, balance_change, 0,
                       DateTime(2019, 11, 6, 13, 5, 0, 0)) :
        balance_change \in {Incoming(value) : value \in CoinAmounts}
                           \cup {Outgoing(value) : value \in CoinAmounts}}

Add_ref(coin, other) ==
    /\ coin \in 0..MAX_COIN
    /\ ReadCall("add_ref", <<coin, other>>, Coin_add_ref(coin, other))

Add(coin, other) ==
    /\ coin \in 0..MAX_COIN
    /\ ReadCall("add", <<coin, other>>, Coin_add(coin, other))

Encode(change) ==
    /\ wpc = "idle"
    /\ ReadCall("encode", <<change>>, Ok(TransactionChange_encode(change)))

Decode(input) ==
    /\ wpc = "idle"
    /\ ReadCall("decode", <<input>>, TransactionChange_decode(input))

NextChange ==
    \/ \E coin \in CoinAmounts, other \in CoinChanges : Add_ref(coin, other) \/ Add(coin, other)
    \/ \E change \in TransactionChanges :
          \/ Encode(change)
          \/ Decode(TransactionChange_encode(change))
          \/ Decode(SubSeq(TransactionChange_encode(change), 1, 4))
    \/ Return

SpecChange == InitWallet /\ [][NextChange]_vars

(* C24: a coin plus an incoming change of v is the sum when the sum is at
   most MAX_COIN and an error otherwise, a coin minus an outgoing change of v
   is the difference when v is at most the coin and an error otherwise, and
   adding by value and by reference give the same result *)
C24_CheckedChange ==
    (wpc = "returned" /\ wcall.op \in {"add", "add_ref"}) =>
        LET coin == wcall.args[1]
            change == wcall.args[2].balance_change
        IN  /\ change.kind = "Incoming" =>
                  IF coin + change.value <= MAX_COIN THEN wres = Ok(coin + change.value)
                  ELSE ~wres.ok
            /\ change.kind = "Outgoing" =>
                  IF change.value <= coin THEN wres = Ok(coin - change.value)
                  ELSE ~wres.ok
            /\ Coin_add(coin, wcall.args[2]) = Coin_add_ref(coin, wcall.args[2])

C24_Witness ==
    /\ Returned("add")
    /\ wcall.args[1] = MAX_COIN
    /\ wcall.args[2].balance_change = Incoming(30)
    /\ ~wres.ok

(* C25: what encode writes of a TransactionChange, decode reads back as the
   same TransactionChange, block time included, and what decode reads from
   an encoding encodes to it again *)
C25_RoundTrip ==
    /\ Returned("encode") =>
          /\ TransactionChange_decode(wres.val) = Ok(wcall.args[1])
          /\ wres.val = TransactionChange_encode(wcall.args[1])
    /\ (Returned("decode") /\ \E change \in TransactionChanges :
                                  wcall.args[1] = TransactionChange_encode(change)) =>
          /\ wres.ok
          /\ wres.val \in TransactionChanges
          /\ TransactionChange_encode(wres.val) = wcall.args[1]

C25_Witness ==
    /\ Returned("decode")
    /\ wres.ok
    /\ wres.val.block_time.nano = 1000500000
    /\ wres.val.block_time.second = 59
    /\ wres.val.block_height = 171

-----------------------------------------------------------------------------
(* Wallet records *)
StakingAddressesOf(wallet) ==
    {BasicRedeem(RedeemAddress_from(k)) : k \in wallet.public_keys}


WalletGrows(before, after) ==
    /\ before.public_keys \subseteq after.public_keys
    /\ before.root_hashes \subseteq after.root_hashes
    /\ StakingAddressesOf(before) \subseteq StakingAddressesOf(after)
    /\ {OrTree(h) : h \in before.root_hashes} \subseteq {OrTree(h) : h \in after.root_hashes}
    /\ after.view_key = before.view_key

(* C26: under every operation of the wallet client, no wallet name disappears,
   no wallet loses a public key, a root hash, a transfer address or a staking
   address, and the view key of a wallet stays the one new_wallet gave it *)
C26_WalletsGrow ==
    [][\A name \in DOMAIN wallet_store :
           /\ name \in DOMAIN wallet_store'
           /\ WalletGrows(wallet_store[name].value, wallet_store'[name].value)
           /\ wallet_store'[name].passphrase = wallet_store[name].passphrase]_vars

(* a second new_wallet under a taken name was refused, and the wallet still
   holds the view key and the root hash it had *)
C26_Witness ==
    /\ wpc = "returned"
    /\ wcall.op = "new_wallet"
    /\ ~wres.ok
    /\ wcall.args[1] \in DOMAIN wallet_store
    /\ wallet_store[wcall.args[1]].value.root_hashes # {}
    /\ wallet_store[wcall.args[1]].value.view_key = 1
    /\ Cardinality(DOMAIN key_store) > 1

-----------------------------------------------------------------------------
(* A store query with prove set and a negative height *)
TipTreeStored ==
    /\ Stored(COL_APP_STATES, encode_var_vec(TipHeight))
    /\ Stored(COL_MERKLE_PROOFS, storage[COL_APP_STATES][encode_var_vec(TipHeight)])

AnsweredFromTip ==
    /\ TipTreeStored
    /\ Stored(COL_WITNESS, req.data)
    /\ IF IsLeaf(TipLeaves, req.data)
       THEN resp.proof = <<TransactionOp(TipLeaves), WitnessOp>>
       ELSE resp.proof = <<WitnessOp>>

(* C27: a store query with prove set and a negative height is rejected or
   answered from the tip: the handler returns, with a non-zero code or with
   the proof built from the tree of the tip, and so never looks an app-hash up
   under a negative height *)
C27_NegativeHeightRejected ==
    (StoreProve /\ req.height < 0) =>
        /\ ~resp.aborted
        /\ resp.code # 0 \/ AnsweredFromTip

-----------------------------------------------------------------------------
(* The operations that check the wallet before they do anything else *)
CosignKeys == PublicKeys \cup {FirstSigner}

NextCosign ==
    \/ With_wallet
    \/ Build
    \/ \E name \in WalletNames, passphrase \in Passphrases :
          \/ New_wallet(name, passphrase)
          \/ \E i \in MultiSigInputs :
                New_multisig_transfer_address(name, passphrase, i.signer_keys,
                                              i.self_public_key, i.m, i.n)
          \/ \E hash \in RootHashes :
                \/ Required_cosigners(name, passphrase, hash)
                \/ Generate_proof(name, passphrase, OrTree(hash), SetToSeq(SignerKeys))
          \/ \E public_key \in CosignKeys :
                \/ Schnorr_signature(name, passphrase, SessionMessage, public_key)
                \/ New_multi_sig_session(name, passphrase, SessionMessage,
                                         SetToSeq(CosignKeys), public_key)
    \/ Return

SpecCosign == InitWallet /\ [][NextCosign]_vars

CheckedOps ==
    {"new_multisig_transfer_address", "generate_proof", "required_cosigners",
     "schnorr_signature", "new_multi_sig_session"}

(* the public key a signing call is made for *)
SigningKey(call) ==
    IF call.op = "schnorr_signature" THEN call.args[4] ELSE call.args[5]

(* C28: new_multisig_transfer_address, generate_proof, required_cosigners,
   schnorr_signature and new_multi_sig_session called with the name of no
   wallet or with a passphrase that is not the wallet's fail and leave the
   four keyspaces as they were; schnorr_signature and new_multi_sig_session
   called for a public key whose private key is not stored fail with
   PrivateKeyNotFound and create no session *)
C28_WalletCheckedFirst ==
    [][(wpc' = "returned" /\ wcall'.op \in CheckedOps) =>
          /\ (\/ wcall'.args[1] \notin DOMAIN wallet_store
              \/ wallet_store[wcall'.args[1]].passphrase # wcall'.args[2]) =>
                 /\ ~wres'.ok
                 /\ wres'.kind \in {"WalletNotFound", "PermissionDenied"}
                 /\ UNCHANGED storeVars
          /\ (/\ wcall'.op \in {"schnorr_signature", "new_multi_sig_session"}
              /\ wcall'.args[1] \in DOMAIN wallet_store
              /\ wallet_store[wcall'.args[1]].passphrase = wcall'.args[2]
              /\ SigningKey(wcall') \notin DOMAIN key_store) =>
                 /\ ~wres'.ok
                 /\ wres'.kind = "PrivateKeyNotFound"
                 /\ UNCHANGED storeVars]_vars

(* new_multi_sig_session was called under the name of no wallet with the
   passphrase and a key of an existing wallet, and no session was stored *)
C28_Witness ==
    /\ wpc = "returned"
    /\ wcall.op = "new_multi_sig_session"
    /\ wcall.args[1] \notin DOMAIN wallet_store
    /\ wcall.args[5] \in DOMAIN key_store
    /\ key_store[wcall.args[5]].passphrase = wcall.args[2]
    /\ ~wres.ok
    /\ wres.kind = "WalletNotFound"
    /\ session_store = <<>>

(* the same call for a wallet that exists, for a key that was never generated *)
C28_WitnessNoKey ==
    /\ wpc = "returned"
    /\ wcall.op = "new_multi_sig_session"
    /\ wcall.args[1] \in DOMAIN wallet_store
    /\ ~wres.ok
    /\ wres.kind = "PrivateKeyNotFound"
    /\ session_store = <<>>

-----------------------------------------------------------------------------
(* Failing operations and the store *)
TwoWriteOps == {"new_wallet", "new_public_key", "new_multisig_transfer_address"}

(* C29: a new_wallet, new_public_key or new_multisig_transfer_address that
   fails leaves the four keyspaces as they were: no key pair stays in the key
   store and no root hash in the root-hash store *)
C29_FailureLeavesStore ==
    [][(wpc' = "returned" /\ wcall'.op \in TwoWriteOps /\ ~wres'.ok) =>
          UNCHANGED storeVars]_vars

-----------------------------------------------------------------------------
(* The wallet history over an index that follows the chain block by block *)
HistoryName == "wallet_1"

ReceivedValue == 30

BlockTimeAt(block_height) == DateTime(2019, 11, 6, 13, 5, block_height, 0)

AllChanges ==
    Flatten(SeqOf({index.details[a].transaction_history : a \in DOMAIN index.details}))

(* the height of the last block the index has seen a change in *)
IndexedHeight ==
    IF AllChanges = <<>> THEN 0
    ELSE CHOOSE h \in {AllChanges[i].block_height : i \in DOMAIN AllChanges} :
             \A i \in DOMAIN AllChanges : AllChanges[i].block_height <= h

ChangeAt(address, block_height) ==
    TransactionChange(TxId(Tx(<<block_height>>, <<TxOut(address, ReceivedValue)>>)), address,
                      Incoming(ReceivedValue), block_height, BlockTimeAt(block_height))

(* the index sees a block in which the address receives an output: the change
   is appended to the history of the address *)
IndexSyncs(address, block_height) ==
    /\ wpc = "idle"
    /\ client # None
    /\ client[1].index # UnauthorizedIndex
    /\ Len(AllChanges) < MaxIndexed
    /\ block_height >= IndexedHeight
    /\ ChangeAt(address, block_height) \notin Range(AllChanges)
    /\ Coin_add(IndexDetails(index, address).balance, ChangeAt(address, block_height)).ok
    /\ index' = [index EXCEPT !.details =
                    [a \in DOMAIN index.details \cup {address} |->
                        IF a = address
                        THEN [balance |->
                                  Coin_add(IndexDetails(index, a).balance,
                                           ChangeAt(a, block_height)).val,
                              transaction_history |->
                                  Append(IndexDetails(index, a).transaction_history,
                                         ChangeAt(a, block_height)),
                              unspent_transactions |->
                                  Append(IndexDetails(index, a).unspent_transactions,
                                         <<TxoPointer(ChangeAt(a, block_height).transaction_id, 0),
                                           TxOut(a, ReceivedValue)>>)]
                        ELSE index.details[a]]]
    /\ UNCHANGED <<builder, client, storeVars, wcall, wres, wpc>>
    /\ UNCHANGED <<nodeVars, mock_enc_dec, req, resp, op, qpc, qreads, commits>>

NextHistory ==
    \/ With_wallet
    \/ With_transaction_read
    \/ Build
    \/ New_wallet(HistoryName, FundsPassphrase)
    \/ New_transfer_address(HistoryName, FundsPassphrase)
    \/ New_multisig_transfer_address(HistoryName, FundsPassphrase, SetToSeq(SignerKeys),
                                     FirstSigner, 2, NumSigners)
    \/ \E address \in WalletAddresses, block_height \in 0..MaxHeight :
          IndexSyncs(address, block_height)
    \/ History(HistoryName, FundsPassphrase)
    \/ Return

SpecHistory == InitWallet /\ [][NextHistory]_vars

SortedByHeight(changes) ==
    \A i, j \in DOMAIN changes : i < j => changes[i].block_height <= changes[j].block_height

HistoryAddresses ==
    {OrTree(h) : h \in wallet_store[wcall.args[1]].value.root_hashes}

HistoryAnswered ==
    /\ Returned("history")
    /\ wres.ok
    /\ \A a \in HistoryAddresses : SortedByHeight(IndexDetails(index, a).transaction_history)

(* every change of every address of the wallet is in the answer, in the order
   of the history of its address, and nothing else is *)
HistoryComplete ==
    HistoryAnswered =>
        /\ Len(wres.val) = Len(Flatten(SeqOf({IndexDetails(index, a).transaction_history
                                                 : a \in HistoryAddresses})))
        /\ \A a \in HistoryAddresses :
               SelectSeq(wres.val, LAMBDA change : change.address = a)
                   = IndexDetails(index, a).transaction_history
        /\ \A i \in DOMAIN wres.val : wres.val[i].address \in HistoryAddresses

(* C30: history returns every change of every transfer address of the wallet
   exactly once, and its answer is sorted by block height whenever the history
   of each address is *)
C30_HistorySorted ==
    /\ HistoryComplete
    /\ HistoryAnswered => SortedByHeight(wres.val)

=============================================================================
